---- MODULE Spec2Model ----
(***************************************************************************)
(* YT-Tutor (src/app.js): the session state, the transcript request, the   *)
(* playback tick with its active-entry / active-chapter lookup, the        *)
(* notebook log with its export, and the transcript scroll arbiter.        *)
(*                                                                         *)
(* Text is a sequence of one-character strings where the code inspects it  *)
(* (trim, the video-id patterns) and a string where it only concatenates.  *)
(* Playback time is counted in 1/Frac seconds, timers in milliseconds.     *)
(***************************************************************************)
EXTENDS Integers, Sequences, FiniteSets, TLC

VARIABLES
    state,                  \* the `state` object, src/app.js:19-31
    ytPlayer,               \* TRUE once createPlayer built the player and its interval
    transcriptScrollPaused, \* "false" | "true" | "auto"  (false | true | "auto" in the code)
    transcriptScrollTimer,  \* handle of the inactivity timeout, 0 for null
    timeouts,               \* pending setTimeout callbacks: [id, kind, left]
    chapterLinks,           \* the .chapter-link elements of #chapters-list
    transcriptEntries,      \* the .transcript-entry elements of #transcript-entries
    currentChapter,         \* textContent of #current-chapter
    pasteShown,             \* #transcript-paste is displayed
    inflight,               \* transcript requests awaiting their response, per video id
    noteClock,              \* the wall clock as read by `new Date()` in addNote
    elapsed,                \* history, while paused by the user: ms since the last handled
                            \* scroll event and since the pause began
    lastOp,                 \* history: the handler that ran last, with its input
    opts,                   \* the checkboxes getInitOptions reads
    threads,                \* the values of the .thread-input elements
    clipboardJobs,          \* copyToClipboard calls awaiting the clipboard: [id, caller, video]
    ytSeek,                 \* history: the calls of ytPlayer.seekTo, and the last target
    initPreview,            \* the lines shown in #init-preview, <<>> while it is hidden
    pasteValue,             \* the value of #transcript-paste
    copyInitEnabled         \* #copy-init-btn is enabled

vars == <<state, ytPlayer, transcriptScrollPaused, transcriptScrollTimer, timeouts,
          chapterLinks, transcriptEntries, currentChapter, pasteShown, inflight,
          noteClock, elapsed, lastOp, opts, threads, clipboardJobs, ytSeek,
          initPreview, pasteValue, copyInitEnabled>>

----------------------------------------------------------------------------
(* Bounds of the model *)

MaxTime == 3        \* playback positions 0..MaxTime, in 1/Frac seconds
Frac == 2           \* playback positions per second
MaxNotes == 2       \* notes taken in one run of the notebook
MaxLog == 4         \* longest log handed to deleteLogEntry on its own
MaxInflight == 2    \* transcript requests in flight at once
MaxTimeouts == 3    \* pending timeouts at once
MaxElapsed == 6000  \* cap of the elapsed-time history, ms
MaxEntries == 3     \* transcript entries of an arbitrary transcript
MaxChapters == 2    \* chapters of an arbitrary chapter list
MaxSeconds == 7325       \* whole seconds handed to the time formatters
MaxSmallCount == 2100    \* every count up to here is formatted
MaxHalfTenths == 60      \* counts up to this many twentieths of a million
MaxThreads == 1          \* thread inputs in the init panel
MaxCopies == 1           \* clipboard writes awaiting their outcome
MaxSeeks == 1            \* seekTo calls in one run

(* Program constants *)

IdLen == 11              \* {11} in the video id patterns
SettleDelay == 500       \* setTimeout(..., 500) after scrollIntoView
InactivityDelay == 3000  \* setTimeout(..., 3000) in the scroll listener

----------------------------------------------------------------------------
(* Generic helpers *)

Min(S) == CHOOSE x \in S : \A y \in S : x <= y

Max(S) == CHOOSE x \in S : \A y \in S : x >= y

RECURSIVE SeqsUpTo(_, _)
SeqsUpTo(S, n) ==
    IF n = 0 THEN {<<>>}
    ELSE LET shorter == SeqsUpTo(S, n - 1)
         IN  shorter \cup {Append(s, x) : s \in shorter, x \in S}

(* String.prototype.trim over the modelled alphabet: " " is the whitespace. *)
RECURSIVE TrimStart(_)
TrimStart(s) ==
    IF s # <<>> /\ Head(s) = " " THEN TrimStart(Tail(s)) ELSE s

RECURSIVE TrimEnd(_)
TrimEnd(s) ==
    IF s # <<>> /\ s[Len(s)] = " " THEN TrimEnd(SubSeq(s, 1, Len(s) - 1)) ELSE s

Trim(s) == TrimEnd(TrimStart(s))

(* A character sequence as the string it spells, for template literals. *)
RECURSIVE Str(_)
Str(s) == IF s = <<>> THEN "" ELSE Head(s) \o Str(Tail(s))

----------------------------------------------------------------------------
(* URL parsing *)

NullId == <<>>

IdChars == {"a", "b", "v", "y", "o", "u", "t", "e"}

IdPrefixes == << <<"v", "=">>, <<"/", "v", "/">>,
                 <<"y", "o", "u", "t", "u", ".", "b", "e", "/">> >>

HasAt(s, i, p) == i + Len(p) - 1 <= Len(s) /\ SubSeq(s, i, i + Len(p) - 1) = p

IsIdRun(s, i) == i + IdLen - 1 <= Len(s) /\ \A k \in i..(i + IdLen - 1) : s[k] \in IdChars

PrefixesAt(s, i) ==
    {k \in 1..Len(IdPrefixes) : HasAt(s, i, IdPrefixes[k]) /\ IsIdRun(s, i + Len(IdPrefixes[k]))}

extractVideoId(url) ==
    IF url = <<>> THEN NullId
    ELSE LET hits == {i \in 1..Len(url) : PrefixesAt(url, i) # {}}
         IN  IF hits # {}
             THEN LET i == Min(hits)
                      p == IdPrefixes[Min(PrefixesAt(url, i))]
                  IN  SubSeq(url, i + Len(p), i + Len(p) + IdLen - 1)
             ELSE IF Len(url) = IdLen /\ IsIdRun(url, 1) THEN url
             ELSE NullId

----------------------------------------------------------------------------
(* Formatting *)

Pad2(n) == IF n < 10 THEN "0" \o ToString(n) ELSE ToString(n)

(* Variant: the minutes are not reduced modulo the hour. *)
formatTimestamp_TotalMinutes(seconds) ==
    LET h == seconds \div (3600 * Frac)
        m == seconds \div (60 * Frac)
        s == (seconds % (60 * Frac)) \div Frac
    IN  IF h > 0 THEN ToString(h) \o ":" \o Pad2(m) \o ":" \o Pad2(s)
        ELSE ToString(m) \o ":" \o Pad2(s)

(* `seconds` arrives as a count of 1/Frac seconds; Math.floor drops the fraction. *)
formatTimestamp(seconds) ==
    LET h == seconds \div (3600 * Frac)
        m == (seconds % (3600 * Frac)) \div (60 * Frac)
        s == (seconds % (60 * Frac)) \div Frac
    IN  IF h > 0 THEN ToString(h) \o ":" \o Pad2(m) \o ":" \o Pad2(s)
        ELSE ToString(m) \o ":" \o Pad2(s)

(* An optional number of the metadata: <<>> when the field is missing. *)
Falsy(c) == c = <<>> \/ c[1] = 0

RECURSIVE Log2Floor(_)
Log2Floor(k) == IF k <= 1 THEN 0 ELSE 1 + Log2Floor(k \div 2)

(* 2^e modulo 20, for e >= 2. *)
Pow2Mod20(e) == <<16, 12, 4, 8>>[(e % 4) + 1]

(* The double nearest to odd/20 lies at or above odd/20: its 53-bit          *)
(* significand is odd * 2^e / 20 rounded, with 2^52 <= odd * 2^e / 20 < 2^53. *)
DoubleAtOrAbove(odd, whole) ==
    LET rest == ((odd % 20) * Pow2Mod20(52 - Log2Floor(whole))) % 20
    IN  rest = 0 \/ rest > 10

(* (n / 1_000_000).toFixed(1), as a count of tenths: the tenth nearest to   *)
(* the double n / 1_000_000, the larger of two equally near.                 *)
ToFixed1Millions(n) ==
    LET q == n \div 100000
        r == n % 100000
    IN  IF r < 50000 THEN q
        ELSE IF r > 50000 THEN q + 1
        ELSE IF DoubleAtOrAbove(2 * q + 1, n \div 1000000) THEN q + 1 ELSE q

(* (n / 1_000).toFixed(0): k + 0.5 is a double, the larger integer wins. *)
ToFixed0Thousands(n) == (n + 500) \div 1000

(* No fraction digit at all in the millions. *)
formatCount_Truncates(c) ==
    IF Falsy(c) THEN "unknown"
    ELSE IF c[1] >= 1000000 THEN ToString(c[1] \div 1000000) \o "M"
    ELSE IF c[1] >= 1000 THEN ToString(ToFixed0Thousands(c[1])) \o "K"
    ELSE ToString(c[1])

formatCount(c) ==
    IF Falsy(c) THEN "unknown"
    ELSE IF c[1] >= 1000000
         THEN LET tenths == ToFixed1Millions(c[1])
              IN  (IF tenths % 10 = 0 THEN ToString(tenths \div 10)
                   ELSE ToString(tenths \div 10) \o "." \o ToString(tenths % 10)) \o "M"
    ELSE IF c[1] >= 1000 THEN ToString(ToFixed0Thousands(c[1])) \o "K"
    ELSE ToString(c[1])

(* Whole seconds, optional. *)
formatDuration(c) ==
    IF Falsy(c) THEN "unknown"
    ELSE LET h == c[1] \div 3600
             m == (c[1] % 3600) \div 60
             s == c[1] % 60
         IN  IF h > 0 THEN ToString(h) \o ":" \o Pad2(m) \o ":" \o Pad2(s)
             ELSE ToString(m) \o ":" \o Pad2(s)

MonthNames ==
    << "January", "February", "March", "April", "May", "June", "July",
       "August", "September", "October", "November", "December" >>

(* yt_dlp_date is YYYYMMDD as digits, optional; dates of the calendar only. *)
formatDate(yt_dlp_date) ==
    IF yt_dlp_date = <<>> THEN "Unknown"
    ELSE LET y == yt_dlp_date[1] \div 10000
             m == ((yt_dlp_date[1] \div 100) % 100) - 1
             d == yt_dlp_date[1] % 100
         IN  MonthNames[m + 1] \o " " \o ToString(d) \o ", " \o ToString(y)

formatTranscriptType(type) ==
    IF type = "manual" THEN "Creator-provided subtitles"
    ELSE IF type = "auto-generated"
         THEN "Auto-generated captions (may contain errors, especially in technical terminology)"
    ELSE "Unknown source"

----------------------------------------------------------------------------
(* The transcript provider: what POST /api/transcript answers for a video.  *)

Null == [null |-> TRUE]

VidA == [i \in 1..IdLen |-> "a"]

VidB == [i \in 1..IdLen |-> "b"]

VideoIds == {VidA, VidB}

YoutuBe == <<"y", "o", "u", "t", "u", ".", "b", "e", "/">>

(* What the user may have typed into #video-url-input. *)
UrlInputs == {YoutuBe \o VidA, <<" ">> \o VidB \o <<" ">>, <<"v", "=", "a">>, <<>>}

PayloadA ==
    [title |-> "Alpha",
     entries |-> << [time |-> 1, text |-> "one", timestamp |-> "0:00"],
                    [time |-> 3, text |-> "two", timestamp |-> "0:01"] >>,
     plain_text |-> "[0:00] one\n[0:01] two",
     chapters |-> << [title |-> "Intro", start_time |-> 0, end_time |-> 2, timestamp |-> "0:00"],
                     [title |-> "Main", start_time |-> 3, end_time |-> 4, timestamp |-> "0:01"] >>,
     metadata |-> [channel |-> "ChanA", transcript_type |-> "manual"]]

PayloadB ==
    [title |-> "Beta",
     entries |-> << [time |-> 0, text |-> "uno", timestamp |-> "0:00"],
                    [time |-> 2, text |-> "dos", timestamp |-> "0:01"] >>,
     plain_text |-> "[0:00] uno\n[0:01] dos",
     chapters |-> << [title |-> "Setup", start_time |-> 1, end_time |-> 3, timestamp |-> "0:00"] >>,
     metadata |-> [channel |-> "ChanB", transcript_type |-> "auto-generated"]]

(* A bare answer: no title, no chapters, no metadata. *)
PayloadBare ==
    [title |-> "",
     entries |-> << [time |-> 2, text |-> "solo", timestamp |-> "0:01"] >>,
     plain_text |-> "[0:01] solo",
     chapters |-> <<>>,
     metadata |-> Null]

Provider(vid) == IF vid = VidA THEN {PayloadA} ELSE {PayloadB, PayloadBare}

(* Metadata with every field the init message reads; an optional number is *)
(* <<n>> or <<>>, a missing text is "".                                      *)
FullMetadata ==
    [channel |-> "ChanA", channel_subscribers |-> <<1500>>, upload_date |-> <<20240115>>,
     duration |-> <<75>>, view_count |-> <<2500000>>, like_count |-> <<999>>,
     categories |-> <<"Education">>, tags |-> <<"math", "logic">>,
     playlist_title |-> "Series", playlist_index |-> <<2>>, playlist_count |-> <<>>,
     description |-> "About", transcript_type |-> "auto-generated"]

MetadataInputs ==
    {Null, PayloadA.metadata}
    \cup {[FullMetadata EXCEPT !.playlist_title = p, !.description = d] :
             p \in {"", "Series"}, d \in {"", "About"}}

ChapterInputs == {<<>>, PayloadA.chapters}

(* Answers for video A over the metadata and chapters, and the other answers. *)
MessagePayloads ==
    {[PayloadA EXCEPT !.metadata = m, !.chapters = c] : m \in MetadataInputs, c \in ChapterInputs}
    \cup {PayloadB, PayloadBare}

----------------------------------------------------------------------------
(* Time index *)

(* Variant: the loop stops at the first element whose time is <= t. *)
RECURSIVE ScanActiveEntry_StopsAtFirst(_, _, _, _)
ScanActiveEntry_StopsAtFirst(els, t, i, activeEntry) ==
    IF i > Len(els) THEN activeEntry
    ELSE IF els[i].time <= t THEN i
    ELSE ScanActiveEntry_StopsAtFirst(els, t, i + 1, activeEntry)

(* The loop of highlightActiveTranscriptEntry: the last element whose time   *)
(* is <= t wins; 0 when there is none.                                       *)
RECURSIVE ScanActiveEntry(_, _, _, _)
ScanActiveEntry(els, t, i, activeEntry) ==
    IF i > Len(els) THEN activeEntry
    ELSE ScanActiveEntry(els, t, i + 1, IF els[i].time <= t THEN i ELSE activeEntry)

MarkActiveEntry(els, t) ==
    LET activeEntry == ScanActiveEntry(els, t, 1, 0)
    IN  [i \in 1..Len(els) |-> [els[i] EXCEPT !.active = (i = activeEntry)]]

LinkIsActive(link, t) == t >= link.start /\ t < link.end

(* The loop of highlightActiveChapter: every link is toggled, the name shown *)
(* is the title of the last active link.                                     *)
RECURSIVE ScanChapterName(_, _, _, _)
ScanChapterName(links, t, i, currentChapterName) ==
    IF i > Len(links) THEN currentChapterName
    ELSE ScanChapterName(links, t, i + 1,
            IF LinkIsActive(links[i], t) THEN links[i].title ELSE currentChapterName)

MarkActiveChapter(links, t) ==
    [i \in 1..Len(links) |-> [links[i] EXCEPT !.active = LinkIsActive(links[i], t)]]

(* Variant: the end of a chapter counts as inside it. *)
RECURSIVE FindChapter_ClosedEnd(_, _, _)
FindChapter_ClosedEnd(chapters, t, i) ==
    IF i > Len(chapters) THEN 0
    ELSE IF t >= chapters[i].start_time /\ t <= chapters[i].end_time THEN i
    ELSE FindChapter_ClosedEnd(chapters, t, i + 1)

(* Array.prototype.find: the first chapter that contains the time. *)
RECURSIVE FindChapter(_, _, _)
FindChapter(chapters, t, i) ==
    IF i > Len(chapters) THEN 0
    ELSE IF t >= chapters[i].start_time /\ t < chapters[i].end_time THEN i
    ELSE FindChapter(chapters, t, i + 1)

getCurrentChapterName(chapters, t) ==
    IF Len(chapters) = 0 THEN ""
    ELSE LET ch == FindChapter(chapters, t, 1)
         IN  IF ch # 0 THEN chapters[ch].title ELSE ""

----------------------------------------------------------------------------
(* Rendering *)

LinksOf(chapters) ==
    [i \in 1..Len(chapters) |->
        [start |-> chapters[i].start_time, end |-> chapters[i].end_time,
         title |-> chapters[i].title, timestamp |-> chapters[i].timestamp,
         active |-> FALSE]]

(* renderChapters returns before it rebuilds the list when there are none. *)
renderChapters(chapters, links) ==
    IF Len(chapters) = 0 THEN links ELSE LinksOf(chapters)

EntryElements(entries) ==
    [i \in 1..Len(entries) |-> [time |-> entries[i].time, active |-> FALSE]]

(* Variant: rendering the new chapters stamps the notes taken so far anew. *)
renderTranscriptState_Restamps(st, data) ==
    [st EXCEPT !.transcript = data,
               !.videoTitle = IF data.title # "" THEN data.title ELSE @,
               !.metadata = data.metadata,
               !.chapters = data.chapters,
               !.questionLog = [i \in 1..Len(@) |->
                    [@[i] EXCEPT !.chapter = getCurrentChapterName(data.chapters, st.currentTime)]]]

renderTranscriptState(st, data) ==
    [st EXCEPT !.transcript = data,
               !.videoTitle = IF data.title # "" THEN data.title ELSE @,
               !.metadata = data.metadata,
               !.chapters = data.chapters]

----------------------------------------------------------------------------
(* Context building.  A message is kept as its lines: the text between the  *)
(* "\n" the code writes; a transcript or a description is one line.          *)

(* meta.name, absent standing for undefined. *)
Field(meta, name, absent) == IF name \in DOMAIN meta THEN meta[name] ELSE absent

(* Array.prototype.join *)
RECURSIVE Join(_, _)
Join(seq, sep) ==
    IF seq = <<>> THEN ""
    ELSE IF Len(seq) = 1 THEN seq[1]
    ELSE seq[1] \o sep \o Join(Tail(seq), sep)

(* Number interpolated in a template literal, "?" for a falsy one. *)
OrQuestion(c) == IF Falsy(c) THEN "?" ELSE ToString(c[1])

(* The trimmed, non-empty values of the thread inputs, in document order. *)
RECURSIVE getRelatedThreads(_)
getRelatedThreads(inputs) ==
    IF inputs = <<>> THEN <<>>
    ELSE LET val == Trim(Head(inputs))
         IN  (IF val # <<>> THEN <<Str(val)>> ELSE <<>>) \o getRelatedThreads(Tail(inputs))

(* Variant: the plain scope keeps each entry's timestamp. *)
getTranscriptForScope_PlainKeepsMarkers(st, scope) ==
    IF st.transcript = Null THEN "[No transcript loaded]"
    ELSE IF scope = "plain"
         THEN Join([i \in 1..Len(st.transcript.entries) |->
                       "[" \o st.transcript.entries[i].timestamp \o "] "
                           \o st.transcript.entries[i].text], " ")
    ELSE st.transcript.plain_text

getTranscriptForScope(st, scope) ==
    IF st.transcript = Null THEN "[No transcript loaded]"
    ELSE IF scope = "timestamps" THEN st.transcript.plain_text
    ELSE IF scope = "plain"
         THEN Join([i \in 1..Len(st.transcript.entries) |-> st.transcript.entries[i].text], " ")
    ELSE st.transcript.plain_text

(* Variant: the metadata lines are written whatever the option says. *)
InfoSection_IgnoresOption(st, meta, o) ==
    << "## Video Information",
       "- **Title:** " \o (IF st.videoTitle # "" THEN st.videoTitle ELSE "Untitled"),
       "- **Channel:** "
          \o (IF Field(meta, "channel", "") # "" THEN meta.channel ELSE "Unknown"),
       "- **Published:** " \o formatDate(Field(meta, "upload_date", <<>>)),
       "- **Duration:** " \o formatDuration(Field(meta, "duration", <<>>)),
       "- **Views:** " \o formatCount(Field(meta, "view_count", <<>>)),
       "- **Likes:** " \o formatCount(Field(meta, "like_count", <<>>)),
       "- **URL:** https://www.youtube.com/watch?v="
          \o (IF st.videoId = NullId THEN "null" ELSE Str(st.videoId)) >>

(* The Video Information section of buildInitMessage. *)
InfoSection(st, meta, o) ==
    << "## Video Information",
       "- **Title:** " \o (IF st.videoTitle # "" THEN st.videoTitle ELSE "Untitled") >>
    \o (IF o.metadata
        THEN << "- **Channel:** "
                   \o (IF Field(meta, "channel", "") # "" THEN meta.channel ELSE "Unknown")
                   \o (IF ~Falsy(Field(meta, "channel_subscribers", <<>>))
                       THEN " (" \o formatCount(meta.channel_subscribers) \o " subscribers)"
                       ELSE ""),
                "- **Published:** " \o formatDate(Field(meta, "upload_date", <<>>)),
                "- **Duration:** " \o formatDuration(Field(meta, "duration", <<>>)),
                "- **Views:** " \o formatCount(Field(meta, "view_count", <<>>)),
                "- **Likes:** " \o formatCount(Field(meta, "like_count", <<>>)) >>
             \o (IF Field(meta, "categories", <<>>) # <<>>
                 THEN << "- **Category:** " \o Join(meta.categories, ", ") >> ELSE <<>>)
             \o (IF Field(meta, "tags", <<>>) # <<>>
                 THEN << "- **Tags:** " \o Join(meta.tags, ", ") >> ELSE <<>>)
        ELSE <<>>)
    \o << "- **URL:** https://www.youtube.com/watch?v="
             \o (IF st.videoId = NullId THEN "null" ELSE Str(st.videoId)) >>

SeriesSection(meta) ==
    IF Field(meta, "playlist_title", "") # ""
    THEN << "", "## Series Context",
            "This video is part " \o OrQuestion(Field(meta, "playlist_index", <<>>))
               \o " of " \o OrQuestion(Field(meta, "playlist_count", <<>>))
               \o " in the playlist \"" \o meta.playlist_title \o "\"." >>
    ELSE <<>>

ChaptersSection(st) ==
    IF Len(st.chapters) > 0
    THEN << "", "## Video Chapters" >>
         \o [i \in 1..Len(st.chapters) |->
                "- [" \o st.chapters[i].timestamp \o "] " \o st.chapters[i].title]
    ELSE <<>>

(* Variant: the description is written whatever the option says. *)
DescriptionSection_IgnoresOption(meta, o) ==
    IF Field(meta, "description", "") # ""
    THEN << "", "## Video Description", meta.description >>
    ELSE <<>>

DescriptionSection(meta, o) ==
    IF o.description /\ Field(meta, "description", "") # ""
    THEN << "", "## Video Description", meta.description >>
    ELSE <<>>

ThreadsSection(thr) ==
    IF Len(thr) > 0
    THEN << "", "## My Related Conversations",
            "I've been exploring related ideas in other threads - reference these if relevant:" >>
         \o [i \in 1..Len(thr) |-> "- " \o thr[i]]
    ELSE <<>>

TranscriptSection(st, meta) ==
    << "", "## Transcript",
       "**Source:** " \o formatTranscriptType(Field(meta, "transcript_type", "")),
       "", getTranscriptForScope(st, st.initScope), "" >>

InstructionBlock(st, meta, o) ==
    << "---", "", "## How I'd Like to Work Together", "",
       "When you receive this message, please:" >>
    \o (IF o.summary THEN << "- Start with a brief summary of the video's main argument and key claims." >>
        ELSE <<>>)
    \o (IF o.chapterSummary /\ Len(st.chapters) > 0
        THEN << "- Provide a chapter-by-chapter summary of the video's structure and progression." >>
        ELSE <<>>)
    \o << "- When I ask questions, I'll include my current position in the video.",
          "- Act as a tutor: help me understand, make connections to other ideas, and push my thinking rather than just answering questions.",
          "- Reference specific parts of the transcript when relevant, including timestamps.",
          "- If I'm confused about something, help me identify *what* I'm confused about before explaining.",
          "- If the speaker makes a claim, help me evaluate it - what's the evidence, what's contested, what's the speaker's particular perspective vs. consensus.",
          "- Use what you know about the speaker/channel to contextualize their claims, perspective, and potential biases." >>
    \o (IF Field(meta, "playlist_title", "") # ""
        THEN << "- This video is part of a series. Note when the speaker references earlier or later episodes, or when a topic seems like it's continued elsewhere in the series." >>
        ELSE <<>>)
    \o (IF Field(meta, "transcript_type", "") = "auto-generated"
        THEN << "- The transcript is auto-generated. Be cautious about quoting exact wording - technical terms, proper nouns, and specialized vocabulary may be transcribed incorrectly. If something looks off, flag it as a possible transcription error rather than attributing it to the speaker." >>
        ELSE <<>>)

(* inputs are the values of the thread inputs, o the options read from the  *)
(* checkboxes.                                                               *)
buildInitMessage(st, o, inputs) ==
    LET meta == st.metadata
    IN  << "I'm watching a YouTube video and I'd like to discuss it with you as my learning companion. Here's the full context:",
           "" >>
        \o InfoSection(st, meta, o)
        \o SeriesSection(meta)
        \o ChaptersSection(st)
        \o DescriptionSection(meta, o)
        \o ThreadsSection(getRelatedThreads(inputs))
        \o TranscriptSection(st, meta)
        \o InstructionBlock(st, meta, o)

(* Variant: the chapter segment is written even without a chapter name. *)
ContextSnippet_AlwaysChapter(st) ==
    LET chapter == getCurrentChapterName(st.chapters, st.currentTime)
    IN  "[Timestamp: " \o formatTimestamp(st.currentTime)
           \o ". Video title: \"" \o (IF st.videoTitle # "" THEN st.videoTitle ELSE "Untitled") \o "\""
           \o ". Chapter: \"" \o chapter \o "\""
           \o ".]"

(* The context snippet of copyContext. *)
ContextSnippet(st) ==
    LET chapter == getCurrentChapterName(st.chapters, st.currentTime)
    IN  "[Timestamp: " \o formatTimestamp(st.currentTime)
           \o ". Video title: \"" \o (IF st.videoTitle # "" THEN st.videoTitle ELSE "Untitled") \o "\""
           \o (IF chapter # "" THEN ". Chapter: \"" \o chapter \o "\"" ELSE "")
           \o ".]"

----------------------------------------------------------------------------
(* Timeouts *)

NewTimeoutId(pending) ==
    Min({i \in 1..(Cardinality(pending) + 1) : \A x \in pending : x.id # i})

SetTimeout(pending, kind, delay) ==
    pending \cup {[id |-> NewTimeoutId(pending), kind |-> kind, left |-> delay]}

(* Variant: clearTimeout leaves the callback pending. *)
ClearTimeout_KeepsPending(pending, handle) == pending

ClearTimeout(pending, handle) == {x \in pending : x.id # handle}

----------------------------------------------------------------------------
(* The options as the page shows them before the user changes any. *)
DefaultOpts ==
    [timestamps |-> TRUE, metadata |-> TRUE, description |-> TRUE,
     summary |-> TRUE, chapterSummary |-> TRUE]

(* The init panel, the clipboard calls and the player's seek history at start. *)
PanelInit ==
    /\ opts = DefaultOpts
    /\ threads = <<>>
    /\ clipboardJobs = {}
    /\ ytSeek = [calls |-> 0, target |-> 0]
    /\ initPreview = <<>>
    /\ pasteValue = <<>>

PanelUnchanged ==
    UNCHANGED <<opts, threads, clipboardJobs, ytSeek,
                initPreview, pasteValue, copyInitEnabled>>

(* What loadVideo, renderTranscript and the paste listener leave alone. *)
InputsUnchanged == UNCHANGED <<opts, threads, clipboardJobs, ytSeek>>

InitialState ==
    [videoId |-> NullId, videoTitle |-> "", videoUrl |-> <<>>,
     transcript |-> Null, chapters |-> <<>>, metadata |-> Null,
     currentTime |-> 0, initScope |-> "timestamps", initSent |-> FALSE,
     questionLog |-> <<>>]

Init ==
    /\ state = InitialState
    /\ ytPlayer = FALSE
    /\ transcriptScrollPaused = "false"
    /\ transcriptScrollTimer = 0
    /\ timeouts = {}
    /\ chapterLinks = <<>>
    /\ transcriptEntries = <<>>
    /\ currentChapter = ""
    /\ pasteShown = FALSE
    /\ inflight = [v \in VideoIds |-> 0]
    /\ noteClock = 0
    /\ elapsed = [scroll |-> 0, phase |-> 0]
    /\ lastOp = [op |-> "init", arg |-> 0]
    /\ PanelInit
    /\ copyInitEnabled = FALSE

ScrollUnchanged == UNCHANGED <<transcriptScrollPaused, transcriptScrollTimer, timeouts, elapsed>>

DomUnchanged == UNCHANGED <<chapterLinks, transcriptEntries, currentChapter, pasteShown>>

InflightTotal == inflight[VidA] + inflight[VidB]

(* loadVideo up to its await: reset, createPlayer, issue the request. *)
ResetState(st, videoId, url) ==
    [st EXCEPT !.videoId = videoId, !.videoUrl = url, !.transcript = Null,
               !.chapters = <<>>, !.metadata = Null, !.currentTime = 0,
               !.videoTitle = "", !.initSent = FALSE, !.questionLog = <<>>]

(* Variant: the session is reset before the id is looked at. *)
LoadVideo_ResetsFirst(input) ==
    LET url == Trim(input)
        videoId == extractVideoId(url)
    IN  /\ lastOp' = [op |-> "loadVideo", arg |-> input]
        /\ InputsUnchanged
        /\ UNCHANGED pasteValue
        /\ state' = ResetState(state, videoId, url)
        /\ IF videoId = NullId
           THEN UNCHANGED <<ytPlayer, chapterLinks, transcriptEntries,
                            currentChapter, pasteShown, inflight, initPreview,
                            copyInitEnabled>>
           ELSE /\ InflightTotal < MaxInflight
                /\ copyInitEnabled' = FALSE
                /\ initPreview' = <<>>
                /\ ytPlayer' = TRUE
                /\ currentChapter' = ""
                /\ transcriptEntries' = <<>>
                /\ pasteShown' = FALSE
                /\ inflight' = [inflight EXCEPT ![videoId] = @ + 1]
                /\ UNCHANGED chapterLinks
        /\ ScrollUnchanged
        /\ UNCHANGED noteClock

LoadVideo(input) ==
    LET url == Trim(input)
        videoId == extractVideoId(url)
    IN  /\ lastOp' = [op |-> "loadVideo", arg |-> input]
        /\ InputsUnchanged
        /\ UNCHANGED pasteValue
        /\ IF videoId = NullId
           THEN UNCHANGED <<state, ytPlayer, chapterLinks, transcriptEntries,
                            currentChapter, pasteShown, inflight, initPreview,
                            copyInitEnabled>>
           ELSE /\ InflightTotal < MaxInflight
                /\ copyInitEnabled' = FALSE
                /\ initPreview' = <<>>
                /\ state' = ResetState(state, videoId, url)
                /\ ytPlayer' = TRUE
                /\ currentChapter' = ""
                /\ transcriptEntries' = <<>>
                /\ pasteShown' = FALSE
                /\ inflight' = [inflight EXCEPT ![videoId] = @ + 1]
                /\ UNCHANGED chapterLinks
        /\ ScrollUnchanged
        /\ UNCHANGED noteClock

(* loadVideo after its await, request resolved: renderTranscript(data). *)
TranscriptArrives(videoId, data) ==
    /\ inflight[videoId] > 0
    /\ inflight' = [inflight EXCEPT ![videoId] = @ - 1]
    /\ state' = renderTranscriptState(state, data)
    /\ chapterLinks' = renderChapters(data.chapters, chapterLinks)
    /\ transcriptEntries' = EntryElements(data.entries)
    /\ pasteShown' = FALSE
    /\ lastOp' = [op |-> "response", arg |-> [videoId |-> videoId, ok |-> TRUE]]
    /\ copyInitEnabled' = TRUE
    /\ initPreview' = IF initPreview # <<>> THEN buildInitMessage(state', opts, threads)
                      ELSE initPreview
    /\ InputsUnchanged
    /\ UNCHANGED pasteValue
    /\ ScrollUnchanged
    /\ UNCHANGED <<ytPlayer, currentChapter, noteClock>>

(* loadVideo after its await, request rejected: showTranscriptError. *)
TranscriptFails(videoId) ==
    /\ inflight[videoId] > 0
    /\ inflight' = [inflight EXCEPT ![videoId] = @ - 1]
    /\ pasteShown' = TRUE
    /\ lastOp' = [op |-> "response", arg |-> [videoId |-> videoId, ok |-> FALSE]]
    /\ PanelUnchanged
    /\ ScrollUnchanged
    /\ UNCHANGED <<state, ytPlayer, chapterLinks, transcriptEntries, currentChapter, noteClock>>

----------------------------------------------------------------------------
(* Playback clock *)

(* Variant: the scroll decision does not look at the arbiter. *)
ShouldAutoScroll_IgnoresArbiter(activeEntry, paused, outOfView) ==
    activeEntry # 0 /\ outOfView

(* highlightActiveTranscriptEntry scrolls only with an active entry, an      *)
(* unpaused arbiter and the entry outside the visible part of the panel.     *)
ShouldAutoScroll(activeEntry, paused, outOfView) ==
    activeEntry # 0 /\ paused = "false" /\ outOfView

(* The setInterval callback of createPlayer; t is ytPlayer.getCurrentTime(). *)
Tick(t, outOfView) ==
    LET activeEntry == ScanActiveEntry(transcriptEntries, t, 1, 0)
    IN  /\ ytPlayer
        /\ state' = [state EXCEPT !.currentTime = t]
        /\ transcriptEntries' = MarkActiveEntry(transcriptEntries, t)
        /\ IF ShouldAutoScroll(activeEntry, transcriptScrollPaused, outOfView)
           THEN /\ Cardinality(timeouts) < MaxTimeouts
                /\ transcriptScrollPaused' = "auto"
                /\ timeouts' = SetTimeout(timeouts, "settle", SettleDelay)
           ELSE UNCHANGED <<transcriptScrollPaused, timeouts>>
        /\ chapterLinks' = MarkActiveChapter(chapterLinks, t)
        /\ currentChapter' = ScanChapterName(chapterLinks, t, 1, "")
        /\ lastOp' = [op |-> "tick", arg |-> outOfView]
        /\ PanelUnchanged
        /\ UNCHANGED <<ytPlayer, transcriptScrollTimer, pasteShown, inflight, noteClock,
                       elapsed>>

(* onPlayerStateChange with event.data = 2: the user paused the video. *)
PlayerPaused(t) ==
    /\ ytPlayer
    /\ state' = [state EXCEPT !.currentTime = t]
    /\ lastOp' = [op |-> "paused", arg |-> t]
    /\ PanelUnchanged
    /\ ScrollUnchanged
    /\ DomUnchanged
    /\ UNCHANGED <<ytPlayer, inflight, noteClock>>

----------------------------------------------------------------------------
(* Manual transcript *)

PasteInputs == {<<>>, <<" ">>, <<" ", "p">>}

(* Variant: the listener takes whatever the box holds as the transcript. *)
TranscriptPasted_BlankAccepted(value) ==
    /\ pasteShown
    /\ state' = [state EXCEPT !.transcript = [entries |-> <<>>, plain_text |-> Str(value)]]
    /\ lastOp' = [op |-> "paste", arg |-> value]
    /\ pasteValue' = value
    /\ copyInitEnabled' = TRUE
    /\ InputsUnchanged
    /\ UNCHANGED initPreview
    /\ ScrollUnchanged
    /\ DomUnchanged
    /\ UNCHANGED <<ytPlayer, inflight, noteClock>>

(* The input listener of #transcript-paste. *)
TranscriptPasted(value) ==
    LET text == Trim(value)
    IN  /\ pasteShown
        /\ state' = IF text # <<>>
                    THEN [state EXCEPT !.transcript = [entries |-> <<>>, plain_text |-> Str(text)]]
                    ELSE state
        /\ lastOp' = [op |-> "paste", arg |-> value]
        /\ pasteValue' = value
        /\ copyInitEnabled' = (text # <<>> \/ copyInitEnabled)
        /\ InputsUnchanged
        /\ UNCHANGED initPreview
        /\ ScrollUnchanged
        /\ DomUnchanged
        /\ UNCHANGED <<ytPlayer, inflight, noteClock>>

----------------------------------------------------------------------------
(* Init panel *)

(* The option sets one click on a checkbox away from o. *)
OneToggled(o) ==
    {[o EXCEPT ![f] = ~o[f]] : f \in DOMAIN o}

(* saveInitOptions, run when the user has changed a checkbox to give o. *)
SaveInitOptions(o) ==
    /\ opts' = o
    /\ state' = [state EXCEPT !.initScope = IF o.timestamps THEN "timestamps" ELSE "plain"]
    /\ initPreview' = IF initPreview # <<>> THEN buildInitMessage(state', o, threads)
                      ELSE initPreview
    /\ lastOp' = [op |-> "saveInitOptions", arg |-> o]
    /\ ScrollUnchanged
    /\ DomUnchanged
    /\ UNCHANGED <<ytPlayer, inflight, noteClock, threads, clipboardJobs, ytSeek,
                   pasteValue, copyInitEnabled>>

(* What localStorage may hold under a key: nothing, the empty string, text  *)
(* that is not JSON, or the JSON of null, of a number, of an array, or of an *)
(* object with some of the option flags.                                     *)
FlagNames == {"timestamps", "metadata", "description", "summary", "chapterSummary"}

StoredObjects ==
    {[kind |-> "object", flags |-> f] :
        f \in UNION {[S -> BOOLEAN] : S \in SUBSET FlagNames}}

StoredInputs ==
    {[kind |-> k, flags |-> <<>>] :
        k \in {"absent", "empty", "unparseable", "null", "number", "array"}}
    \cup StoredObjects

(* loadInitOptions: the checkboxes and state.initScope it leaves. *)
loadInitOptions(saved, o, scope) ==
    IF saved.kind \in {"absent", "empty"} THEN [opts |-> o, initScope |-> scope]
    ELSE IF saved.kind \in {"unparseable", "null"} THEN [opts |-> o, initScope |-> scope]
    ELSE LET flags == IF saved.kind = "object" THEN saved.flags ELSE <<>>
         IN  [opts |-> [f \in DOMAIN o |-> IF f \in DOMAIN flags THEN flags[f] ELSE o[f]],
              initScope |-> IF "timestamps" \in DOMAIN flags /\ flags.timestamps
                            THEN "timestamps" ELSE "plain"]

(* The call of loadInitOptions at the end of the script. *)
LoadInitOptions(saved) ==
    LET r == loadInitOptions(saved, opts, state.initScope)
    IN  /\ lastOp.op = "init"
        /\ opts' = r.opts
        /\ state' = [state EXCEPT !.initScope = r.initScope]
        /\ lastOp' = [op |-> "loadInitOptions", arg |-> saved]
        /\ ScrollUnchanged
        /\ DomUnchanged
        /\ UNCHANGED <<ytPlayer, inflight, noteClock, threads, clipboardJobs, ytSeek,
                       initPreview, pasteValue, copyInitEnabled>>

(* restoreCollapseStates throws where it parses the stored text or lists    *)
(* the entries of what it parsed.                                             *)
restoreCollapseStatesThrows(saved) == saved.kind \in {"unparseable", "null"}

(* The call of restoreCollapseStates at the end of the script, after        *)
(* loadInitOptions.                                                           *)
RestoreCollapseStates(saved) ==
    /\ lastOp.op = "loadInitOptions"
    /\ lastOp' = [op |-> "restoreCollapseStates",
                  arg |-> [saved |-> saved, threw |-> restoreCollapseStatesThrows(saved)]]
    /\ PanelUnchanged
    /\ ScrollUnchanged
    /\ DomUnchanged
    /\ UNCHANGED <<state, ytPlayer, inflight, noteClock>>

(* Variant: building the preview marks the init message as sent. *)
ToggleInitPreview_MarksSent ==
    /\ initPreview' = IF initPreview = <<>> THEN buildInitMessage(state, opts, threads)
                      ELSE <<>>
    /\ state' = IF initPreview = <<>> THEN [state EXCEPT !.initSent = TRUE] ELSE state
    /\ lastOp' = [op |-> "toggleInitPreview", arg |-> initPreview']
    /\ ScrollUnchanged
    /\ DomUnchanged
    /\ UNCHANGED <<ytPlayer, inflight, noteClock, opts, threads, clipboardJobs,
                   ytSeek, pasteValue, copyInitEnabled>>

(* toggleInitPreview: showing the preview builds the message. *)
ToggleInitPreview ==
    /\ initPreview' = IF initPreview = <<>> THEN buildInitMessage(state, opts, threads)
                      ELSE <<>>
    /\ lastOp' = [op |-> "toggleInitPreview", arg |-> initPreview']
    /\ ScrollUnchanged
    /\ DomUnchanged
    /\ UNCHANGED <<state, ytPlayer, inflight, noteClock, opts, threads, clipboardJobs,
                   ytSeek, pasteValue, copyInitEnabled>>

FramePanel ==
    /\ ScrollUnchanged
    /\ DomUnchanged
    /\ UNCHANGED <<state, ytPlayer, inflight, noteClock, opts, clipboardJobs, ytSeek,
                   initPreview, pasteValue, copyInitEnabled>>

addThreadInput ==
    /\ Len(threads) < MaxThreads
    /\ threads' = Append(threads, <<>>)
    /\ lastOp' = [op |-> "addThreadInput", arg |-> 0]
    /\ FramePanel

removeThreadInput(i) ==
    /\ i \in 1..Len(threads)
    /\ threads' = SubSeq(threads, 1, i - 1) \o SubSeq(threads, i + 1, Len(threads))
    /\ lastOp' = [op |-> "removeThreadInput", arg |-> i]
    /\ FramePanel

ThreadInputs == {<<" ">>, <<"t", " ">>}

(* The user types into the i-th thread input. *)
ThreadTyped(i, value) ==
    /\ i \in 1..Len(threads)
    /\ threads' = [threads EXCEPT ![i] = value]
    /\ lastOp' = [op |-> "threadTyped", arg |-> value]
    /\ FramePanel

----------------------------------------------------------------------------
(* Clipboard *)

(* How navigator.clipboard.writeText settles and, after a rejection, what   *)
(* document.execCommand("copy") does: it returns true, returns false when    *)
(* the command is unsupported or disabled, or throws.                        *)
ClipboardOutcomes ==
    {[write |-> "resolves", exec |-> "none"]}
    \cup {[write |-> "rejects", exec |-> e] : e \in {"true", "false", "throws"}}

(* The boolean copyToClipboard resolves to. *)
copyToClipboard(outcome) ==
    IF outcome.write = "resolves" THEN TRUE
    ELSE IF outcome.exec = "throws" THEN FALSE
    ELSE TRUE

(* A call of copyToClipboard; video is the video the text was built for. *)
NewJob(caller) ==
    [id |-> Min({i \in 1..(Cardinality(clipboardJobs) + 1) :
                    \A j \in clipboardJobs : j.id # i}),
     caller |-> caller,
     video |-> state.videoId]

(* copyInitMessage up to its await. *)
CopyInitMessage ==
    LET manual == state.transcript = Null /\ Trim(pasteValue) # <<>>
        st == IF manual
              THEN [state EXCEPT !.transcript =
                       [entries |-> <<>>, plain_text |-> Str(Trim(pasteValue))]]
              ELSE state
    IN  /\ copyInitEnabled
        /\ IF st.transcript = Null
           THEN /\ lastOp' = [op |-> "copyInitMessage", arg |-> <<>>]
                /\ UNCHANGED <<state, clipboardJobs>>
           ELSE /\ Cardinality(clipboardJobs) < MaxCopies
                /\ state' = st
                /\ clipboardJobs' = clipboardJobs \cup {NewJob("init")}
                /\ lastOp' = [op |-> "copyInitMessage",
                              arg |-> buildInitMessage(st, opts, threads)]
        /\ ScrollUnchanged
        /\ DomUnchanged
        /\ UNCHANGED <<ytPlayer, inflight, noteClock, opts, threads, ytSeek,
                       initPreview, pasteValue, copyInitEnabled>>

(* copyContext up to its await. *)
CopyContext ==
    /\ Cardinality(clipboardJobs) < MaxCopies
    /\ clipboardJobs' = clipboardJobs \cup {NewJob("context")}
    /\ lastOp' = [op |-> "copyContext", arg |-> ContextSnippet(state)]
    /\ ScrollUnchanged
    /\ DomUnchanged
    /\ UNCHANGED <<state, ytPlayer, inflight, noteClock, opts, threads, ytSeek,
                   initPreview, pasteValue, copyInitEnabled>>

(* copyToClipboard settles and its caller goes on after the await. *)
ClipboardSettles(job, outcome) ==
    LET ok == copyToClipboard(outcome)
    IN  /\ job \in clipboardJobs
        /\ clipboardJobs' = clipboardJobs \ {job}
        /\ state' = IF job.caller = "init" /\ ok THEN [state EXCEPT !.initSent = TRUE]
                    ELSE state
        /\ lastOp' = [op |-> "clipboard",
                      arg |-> [caller |-> job.caller, outcome |-> outcome, ok |-> ok]]
        /\ ScrollUnchanged
        /\ DomUnchanged
        /\ UNCHANGED <<ytPlayer, inflight, noteClock, opts, threads, ytSeek,
                       initPreview, pasteValue, copyInitEnabled>>

----------------------------------------------------------------------------
(* Seeking *)

FrameSeek ==
    /\ ScrollUnchanged
    /\ DomUnchanged
    /\ UNCHANGED <<state, ytPlayer, inflight, noteClock, opts, threads, clipboardJobs,
                   initPreview, pasteValue, copyInitEnabled>>

(* Variant: the click seeks to the start of the video. *)
SelectEntry_SeeksToStart(i) ==
    /\ i \in 1..Len(transcriptEntries)
    /\ ytSeek.calls < MaxSeeks
    /\ ytSeek' = [calls |-> ytSeek.calls + 1, target |-> 0]
    /\ lastOp' = [op |-> "selectEntry", arg |-> i]
    /\ FrameSeek

(* The click listener of the i-th transcript entry. *)
SelectEntry(i) ==
    /\ i \in 1..Len(transcriptEntries)
    /\ ytSeek.calls < MaxSeeks
    /\ ytSeek' = IF ytPlayer
                 THEN [calls |-> ytSeek.calls + 1, target |-> transcriptEntries[i].time]
                 ELSE ytSeek
    /\ lastOp' = [op |-> "selectEntry", arg |-> i]
    /\ FrameSeek

(* The click listener of the i-th chapter link. *)
SelectChapter(i) ==
    /\ i \in 1..Len(chapterLinks)
    /\ ytSeek.calls < MaxSeeks
    /\ ytSeek' = IF ytPlayer
                 THEN [calls |-> ytSeek.calls + 1, target |-> chapterLinks[i].start]
                 ELSE ytSeek
    /\ lastOp' = [op |-> "selectChapter", arg |-> i]
    /\ FrameSeek

----------------------------------------------------------------------------
(* Notebook *)

(* What the user may have typed into #notebook-input. *)
NoteInputs == {<<>>, <<" ", " ">>, <<" ", "n", " ">>, <<"n", " ", "n">>}

(* Variant: the emptiness test reads the input before it is trimmed. *)
addNote_BlankAccepted(st, value, now) ==
    IF value = <<>> THEN st
    ELSE [st EXCEPT !.questionLog =
            Append(@, [timestamp |-> formatTimestamp(st.currentTime),
                       chapter |-> getCurrentChapterName(st.chapters, st.currentTime),
                       text |-> Trim(value),
                       askedAt |-> now])]

(* addNote on the session; `now` is what new Date() reads. *)
addNote(st, value, now) ==
    LET text == Trim(value)
    IN  IF text = <<>> THEN st
        ELSE [st EXCEPT !.questionLog =
                Append(@, [timestamp |-> formatTimestamp(st.currentTime),
                           chapter |-> getCurrentChapterName(st.chapters, st.currentTime),
                           text |-> text,
                           askedAt |-> now])]

AddNote(value) ==
    /\ state' = addNote(state, value, noteClock + 1)
    /\ noteClock' = IF state' # state THEN noteClock + 1 ELSE noteClock
    /\ noteClock' <= MaxNotes
    /\ lastOp' = [op |-> "addNote", arg |-> value]
    /\ PanelUnchanged
    /\ ScrollUnchanged
    /\ DomUnchanged
    /\ UNCHANGED <<ytPlayer, inflight>>

(* Array.prototype.splice(start, deleteCount) without inserted items; start  *)
(* is the 0-based index of the code.                                         *)
Splice(a, start, deleteCount) ==
    LET len == Len(a)
        actualStart == IF start < 0 THEN Max({len + start, 0}) ELSE Min({start, len})
        actualDeleteCount == Min({Max({deleteCount, 0}), len - actualStart})
    IN  SubSeq(a, 1, actualStart) \o SubSeq(a, actualStart + actualDeleteCount + 1, len)

(* Variant: splice is asked to remove two items. *)
deleteLogEntry_RemovesTwo(log, index) == Splice(log, index, 2)

deleteLogEntry(log, index) == Splice(log, index, 1)

DeleteLogEntry(index) ==
    /\ state' = [state EXCEPT !.questionLog = deleteLogEntry(@, index)]
    /\ lastOp' = [op |-> "deleteLogEntry", arg |-> index]
    /\ PanelUnchanged
    /\ ScrollUnchanged
    /\ DomUnchanged
    /\ UNCHANGED <<ytPlayer, inflight, noteClock>>

(* The indexes the delete buttons of the rendered log carry. *)
RenderedIndexes == 0..(Len(state.questionLog) - 1)

----------------------------------------------------------------------------
(* Export.  The document is kept as its lines: the text between the "\n".   *)

ExportDate == "1/1/2026"

IdText(videoId) == IF videoId = NullId THEN "null" ELSE Str(videoId)

ExportHeader(st) ==
    << "# Video Notes: " \o (IF st.videoTitle # "" THEN st.videoTitle ELSE "Untitled"),
       "**Source:** https://www.youtube.com/watch?v=" \o IdText(st.videoId),
       "**Date:** " \o ExportDate,
       "",
       "---",
       "",
       "## Notes & Questions",
       "" >>

(* Variant: the block names the chapter playing at export time. *)
ExportBlock_CurrentChapter(entry) ==
    LET chapter == getCurrentChapterName(state.chapters, state.currentTime)
    IN  << "**[" \o entry.timestamp
                 \o (IF chapter # "" THEN " | " \o chapter ELSE "")
                 \o "]**",
           Str(entry.text),
           "" >>

ExportBlock(entry) ==
    << "**[" \o entry.timestamp
             \o (IF entry.chapter # "" THEN " | " \o entry.chapter ELSE "")
             \o "]**",
       Str(entry.text),
       "" >>

RECURSIVE ExportBlocks(_, _)
ExportBlocks(log, i) ==
    IF i > Len(log) THEN <<>>
    ELSE ExportBlock(log[i]) \o ExportBlocks(log, i + 1)

buildExportMarkdown(st) == ExportHeader(st) \o ExportBlocks(st.questionLog, 1)

(* exportLog: nothing is downloaded for an empty log. *)
ExportLog ==
    /\ lastOp' = [op |-> "exportLog",
                  arg |-> IF Len(state.questionLog) = 0 THEN <<>>
                          ELSE buildExportMarkdown(state)]
    /\ PanelUnchanged
    /\ ScrollUnchanged
    /\ DomUnchanged
    /\ UNCHANGED <<state, ytPlayer, inflight, noteClock>>

----------------------------------------------------------------------------
(* Scroll arbiter *)

Granule == SettleDelay \div 2

(* Variant: the listener arms a new timeout without clearing the pending one. *)
OnScroll_KeepsOldTimer(paused, timer, pending) ==
    IF paused = "auto" THEN [paused |-> paused, timer |-> timer, pending |-> pending]
    ELSE [paused |-> "true",
          timer |-> NewTimeoutId(pending),
          pending |-> SetTimeout(pending, "inactivity", InactivityDelay)]

(* Variant: the listener lacks the early return for programmatic scrolls. *)
OnScroll_CountsProgrammatic(paused, timer, pending) ==
    LET cleared == IF timer # 0 THEN ClearTimeout(pending, timer) ELSE pending
    IN  [paused |-> "true",
         timer |-> NewTimeoutId(cleared),
         pending |-> SetTimeout(cleared, "inactivity", InactivityDelay)]

(* The scroll listener of #transcript-content. *)
OnScroll(paused, timer, pending) ==
    IF paused = "auto" THEN [paused |-> paused, timer |-> timer, pending |-> pending]
    ELSE LET cleared == IF timer # 0 THEN ClearTimeout(pending, timer) ELSE pending
         IN  [paused |-> "true",
              timer |-> NewTimeoutId(cleared),
              pending |-> SetTimeout(cleared, "inactivity", InactivityDelay)]

Scroll ==
    LET r == OnScroll(transcriptScrollPaused, transcriptScrollTimer, timeouts)
    IN  /\ Cardinality(r.pending) <= MaxTimeouts
        /\ transcriptScrollPaused' = r.paused
        /\ transcriptScrollTimer' = r.timer
        /\ timeouts' = r.pending
        /\ elapsed' = IF transcriptScrollPaused = "auto" THEN elapsed
                      ELSE [scroll |-> 0,
                            phase |-> IF transcriptScrollPaused = "true" THEN elapsed.phase ELSE 0]
        /\ lastOp' = [op |-> "scroll", arg |-> transcriptScrollPaused]
        /\ PanelUnchanged
        /\ DomUnchanged
        /\ UNCHANGED <<state, ytPlayer, inflight, noteClock>>

(* The inactivity callback armed by the scroll listener. *)
OnInactivity(paused, timer) == [paused |-> "false", timer |-> 0]

InactivityFires ==
    \E x \in timeouts :
        /\ x.kind = "inactivity" /\ x.left = 0
        /\ LET r == OnInactivity(transcriptScrollPaused, transcriptScrollTimer)
           IN  /\ transcriptScrollPaused' = r.paused
               /\ transcriptScrollTimer' = r.timer
        /\ timeouts' = timeouts \ {x}
        /\ elapsed' = IF transcriptScrollPaused' = "true" THEN elapsed
                      ELSE [scroll |-> 0, phase |-> 0]
        /\ lastOp' = [op |-> "inactivityTimeout", arg |-> elapsed]
        /\ PanelUnchanged
        /\ DomUnchanged
        /\ UNCHANGED <<state, ytPlayer, inflight, noteClock>>

(* Variant: the settle callback leaves the arbiter as it finds it. *)
OnSettle_KeepsPhase(paused) == paused

(* The settle callback armed by highlightActiveTranscriptEntry. *)
OnSettle(paused) == IF paused = "auto" THEN "false" ELSE paused

SettleFires ==
    \E x \in timeouts :
        /\ x.kind = "settle" /\ x.left = 0
        /\ transcriptScrollPaused' = OnSettle(transcriptScrollPaused)
        /\ timeouts' = timeouts \ {x}
        /\ elapsed' = IF transcriptScrollPaused' = "true" THEN elapsed
                      ELSE [scroll |-> 0, phase |-> 0]
        /\ lastOp' = [op |-> "settleTimeout", arg |-> 0]
        /\ PanelUnchanged
        /\ DomUnchanged
        /\ UNCHANGED <<state, ytPlayer, inflight, noteClock, transcriptScrollTimer>>

(* Granule ms pass; a timeout that is due runs before more time passes. *)
Advance ==
    /\ \A x \in timeouts : x.left > 0
    /\ timeouts' = {[x EXCEPT !.left = Max({@ - Granule, 0})] : x \in timeouts}
    /\ elapsed' = IF transcriptScrollPaused = "true"
                  THEN [scroll |-> Min({elapsed.scroll + Granule, MaxElapsed}),
                        phase |-> Min({elapsed.phase + Granule, MaxElapsed})]
                  ELSE elapsed
    /\ lastOp' = [op |-> "advance", arg |-> 0]
    /\ PanelUnchanged
    /\ DomUnchanged
    /\ UNCHANGED <<state, ytPlayer, inflight, noteClock,
                   transcriptScrollPaused, transcriptScrollTimer>>

----------------------------------------------------------------------------
(* Specifications *)

(* The session: loads, their responses in any order, playback, manual paste. *)
Next ==
    \/ \E input \in UrlInputs : LoadVideo(input)
    \/ \E v \in VideoIds : \E data \in Provider(v) : TranscriptArrives(v, data)
    \/ \E v \in VideoIds : TranscriptFails(v)
    \/ \E t \in 0..MaxTime : \E outOfView \in BOOLEAN : Tick(t, outOfView)
    \/ \E t \in 0..MaxTime : PlayerPaused(t)
    \/ \E value \in PasteInputs : TranscriptPasted(value)

Spec == Init /\ [][Next]_vars

(* The notebook on a session that loads one video after the other: notes,   *)
(* deletes through the rendered buttons, exports.                            *)
NextNotes ==
    \/ \E input \in UrlInputs : InflightTotal = 0 /\ LoadVideo(input)
    \/ \E v \in VideoIds : \E data \in Provider(v) : TranscriptArrives(v, data)
    \/ \E t \in 0..MaxTime : Tick(t, FALSE)
    \/ \E value \in NoteInputs : AddNote(value)
    \/ \E index \in RenderedIndexes : DeleteLogEntry(index)
    \/ ExportLog

SpecNotes == Init /\ [][NextNotes]_vars

(* The scroll arbiter under the clock, on a session that loads and plays. *)
NextScroll ==
    \/ \E input \in UrlInputs : InflightTotal = 0 /\ LoadVideo(input)
    \/ \E v \in VideoIds : \E data \in Provider(v) : TranscriptArrives(v, data)
    \/ \E t \in 0..MaxTime : \E outOfView \in BOOLEAN : Tick(t, outOfView)
    \/ Scroll
    \/ InactivityFires
    \/ SettleFires
    \/ Advance

SpecScroll == Init /\ [][NextScroll]_vars

(* The same under an event loop that lets time pass and runs every timeout  *)
(* that is due; scroll events and ticks may or may not come.                 *)
SpecScrollLive ==
    /\ SpecScroll
    /\ WF_vars(Advance)
    /\ WF_vars(InactivityFires)
    /\ WF_vars(SettleFires)

(* Video A loaded and its transcript request answered with data. *)
Loaded(data) ==
    renderTranscriptState(ResetState(InitialState, VidA, YoutuBe \o VidA), data)

(* A session in state st playing video A, data rendered, the last tick at   *)
(* st.currentTime, no scroll so far.                                         *)
Playing(st, data) ==
    /\ state = st
    /\ ytPlayer = TRUE
    /\ transcriptScrollPaused = "false"
    /\ transcriptScrollTimer = 0
    /\ timeouts = {}
    /\ chapterLinks = MarkActiveChapter(renderChapters(data.chapters, <<>>), st.currentTime)
    /\ transcriptEntries = MarkActiveEntry(EntryElements(data.entries), st.currentTime)
    /\ currentChapter = ScanChapterName(renderChapters(data.chapters, <<>>), st.currentTime, 1, "")
    /\ pasteShown = FALSE
    /\ inflight = [v \in VideoIds |-> 0]
    /\ elapsed = [scroll |-> 0, phase |-> 0]
    /\ PanelInit
    /\ copyInitEnabled = TRUE

(* k notes, the i-th taken at playback position i modulo the positions. *)
RECURSIVE TakeNotes(_, _)
TakeNotes(st, k) ==
    IF k = 0 THEN st
    ELSE addNote([TakeNotes(st, k - 1) EXCEPT !.currentTime = k % (MaxTime + 1)],
                 <<"n">>, k)

(* deleteLogEntry over every index, on logs of up to MaxLog notes taken     *)
(* while video A played.                                                     *)
InitDelete ==
    \E k \in 0..MaxLog :
        /\ Playing(TakeNotes(Loaded(PayloadA), k), PayloadA)
        /\ noteClock = k
        /\ lastOp = [op |-> "init", arg |-> 0]

DeleteIndexes == (0 - MaxLog - 1)..(MaxLog + 1)

NextDelete == \E index \in DeleteIndexes : DeleteLogEntry(index)

SpecDelete == InitDelete /\ [][NextDelete]_vars

(* The time index over every sorted transcript and every ordered list of    *)
(* disjoint chapters the provider may answer with.                           *)
SortedTimes ==
    {s \in SeqsUpTo(0..MaxTime, MaxEntries) :
        \A i \in 1..Len(s) : \A j \in 1..Len(s) : i < j => s[i] <= s[j]}

Intervals == {iv \in (0..MaxTime) \X (1..(MaxTime + 1)) : iv[1] < iv[2]}

DisjointIntervals ==
    {s \in SeqsUpTo(Intervals, MaxChapters) :
        \A i \in 1..Len(s) : i < Len(s) => s[i][2] <= s[i + 1][1]}

PayloadOf(times, ivs) ==
    [title |-> "Any",
     entries |-> [i \in 1..Len(times) |->
                    [time |-> times[i], text |-> "e" \o ToString(i),
                     timestamp |-> formatTimestamp(times[i])]],
     plain_text |-> "",
     chapters |-> [i \in 1..Len(ivs) |->
                    [title |-> "c" \o ToString(i), start_time |-> ivs[i][1],
                     end_time |-> ivs[i][2], timestamp |-> formatTimestamp(ivs[i][1])]],
     metadata |-> Null]

InitIndex ==
    /\ \E times \in SortedTimes : \E ivs \in DisjointIntervals :
          Playing(Loaded(PayloadOf(times, ivs)), PayloadOf(times, ivs))
    /\ noteClock = 0
    /\ lastOp = [op |-> "init", arg |-> 0]

NextIndex == \E t \in 0..MaxTime : \E outOfView \in BOOLEAN : Tick(t, outOfView)

SpecIndex == InitIndex /\ [][NextIndex]_vars

(* The init message over a session: loads one after the other, the clock,  *)
(* a log of one note, the timestamps option, manual transcripts and the      *)
(* clipboard.                                                                *)
NextPanel ==
    \/ \E input \in UrlInputs : InflightTotal = 0 /\ LoadVideo(input)
    \/ \E v \in VideoIds : \E data \in Provider(v) : TranscriptArrives(v, data)
    \/ \E v \in VideoIds : TranscriptFails(v)
    \/ \E value \in PasteInputs : TranscriptPasted(value)
    \/ PlayerPaused(MaxTime)
    \/ state.questionLog = <<>> /\ AddNote(<<"n">>)
    \/ SaveInitOptions([opts EXCEPT !.timestamps = ~opts.timestamps])
    \/ CopyInitMessage
    \/ \E job \in clipboardJobs : \E outcome \in ClipboardOutcomes : ClipboardSettles(job, outcome)

SpecPanel == Init /\ [][NextPanel]_vars

(* The init message over the provider's answers, the options and the       *)
(* thread inputs.                                                            *)
ScopeInputs == {"timestamps", "plain", "timestamped", "", "other"}

ApplyTranscriptForScope(scope) ==
    /\ lastOp' = [op |-> "getTranscriptForScope",
                  arg |-> [scope |-> scope, text |-> getTranscriptForScope(state, scope)]]
    /\ ScrollUnchanged
    /\ DomUnchanged
    /\ PanelUnchanged
    /\ UNCHANGED <<state, ytPlayer, inflight, noteClock>>

InitMessage ==
    \/ Init
    \/ /\ \E data \in MessagePayloads : Playing(TakeNotes(Loaded(data), 1), data)
       /\ noteClock = 1
       /\ lastOp = [op |-> "init", arg |-> 0]

NextMessage ==
    \/ \E o \in OneToggled(opts) : SaveInitOptions(o)
    \/ ToggleInitPreview
    \/ addThreadInput
    \/ \E i \in 1..MaxThreads : removeThreadInput(i)
    \/ \E i \in 1..MaxThreads : \E value \in ThreadInputs : ThreadTyped(i, value)
    \/ \E scope \in ScopeInputs : ApplyTranscriptForScope(scope)

SpecMessage == InitMessage /\ [][NextMessage]_vars

(* The clicks on entries and chapter links among the other handlers, over  *)
(* one video: a load at a time, ticks at the end of the video, a scroll out  *)
(* of the idle arbiter and the timeouts, a log of one note, export and the   *)
(* context snippet.                                                          *)
NextSeek ==
    \/ InflightTotal = 0 /\ LoadVideo(YoutuBe \o VidA)
    \/ TranscriptArrives(VidA, PayloadA)
    \/ \E outOfView \in BOOLEAN : Tick(MaxTime, outOfView)
    \/ transcriptScrollPaused = "false" /\ Scroll
    \/ InactivityFires
    \/ SettleFires
    \/ Advance
    \/ state.questionLog = <<>> /\ AddNote(<<"n">>)
    \/ ExportLog
    \/ CopyContext
    \/ \E job \in clipboardJobs : \E outcome \in ClipboardOutcomes : ClipboardSettles(job, outcome)
    \/ \E i \in 1..MaxEntries : SelectEntry(i)
    \/ \E i \in 1..MaxChapters : SelectChapter(i)

SpecSeek == Init /\ [][NextSeek]_vars

(* The builders over a session: loads one after the other, the clock, a    *)
(* log of one note, the timestamps option and the clipboard.                 *)
NextBuilders ==
    \/ \E input \in UrlInputs : InflightTotal = 0 /\ LoadVideo(input)
    \/ \E v \in VideoIds : \E data \in Provider(v) : TranscriptArrives(v, data)
    \/ PlayerPaused(MaxTime)
    \/ state.questionLog = <<>> /\ AddNote(<<"n">>)
    \/ SaveInitOptions([opts EXCEPT !.timestamps = ~opts.timestamps])
    \/ ExportLog
    \/ ToggleInitPreview
    \/ \E scope \in ScopeInputs : ApplyTranscriptForScope(scope)
    \/ CopyInitMessage
    \/ CopyContext
    \/ \E job \in clipboardJobs : \E outcome \in ClipboardOutcomes : ClipboardSettles(job, outcome)

SpecBuilders == Init /\ [][NextBuilders]_vars

(* The end of the script: the stored preferences are restored, whatever     *)
(* the store holds, and the user may then change a checkbox.                  *)
NextRestore ==
    \/ \E saved \in StoredInputs : LoadInitOptions(saved)
    \/ \E saved \in StoredInputs : RestoreCollapseStates(saved)
    \/ /\ lastOp.op # "init"
       /\ SaveInitOptions([opts EXCEPT !.timestamps = ~opts.timestamps])

SpecRestore == Init /\ [][NextRestore]_vars

(* The context snippet at every playback position of every video, and      *)
(* before any video is loaded.                                                *)
NextContext ==
    \/ \E input \in UrlInputs : InflightTotal = 0 /\ LoadVideo(input)
    \/ \E v \in VideoIds : \E data \in Provider(v) : TranscriptArrives(v, data)
    \/ \E t \in 0..MaxTime : Tick(t, FALSE)
    \/ CopyContext
    \/ \E job \in clipboardJobs : \E outcome \in ClipboardOutcomes : ClipboardSettles(job, outcome)

SpecContext == Init /\ [][NextContext]_vars

(* The Video Information section over metadata with each field it reads    *)
(* present or missing, and the metadata option on or off.                     *)
InfoMetadataInputs ==
    {Null, PayloadA.metadata}
    \cup {[FullMetadata EXCEPT !.channel = ch, !.upload_date = d, !.duration = du,
                               !.view_count = v, !.like_count = l,
                               !.categories = c, !.tags = t] :
             ch \in {"", "ChanA"}, d \in {<<>>, <<20240115>>}, du \in {<<>>, <<0>>, <<75>>},
             v \in {<<>>, <<2500000>>}, l \in {<<>>, <<0>>, <<999>>},
             c \in {<<>>, <<"Education">>}, t \in {<<>>, <<"math", "logic">>}}

InitInfo ==
    \/ Init
    \/ /\ \E meta \in InfoMetadataInputs :
             LET data == [PayloadA EXCEPT !.metadata = meta]
             IN  Playing(Loaded(data), data)
       /\ noteClock = 0
       /\ lastOp = [op |-> "init", arg |-> 0]

NextInfo ==
    \/ SaveInitOptions([opts EXCEPT !.metadata = ~opts.metadata])
    \/ ToggleInitPreview

SpecInfo == InitInfo /\ [][NextInfo]_vars

(* The formatters over their inputs: every whole second up to MaxSeconds;   *)
(* every count up to MaxSmallCount, the counts around each multiple of 500   *)
(* just below a million and around each half tenth of a million after it,    *)
(* and a missing count.                                                      *)
SecondsInputs == 0..MaxSeconds

CountInputs ==
    {<<>>}
    \cup {<<n>> : n \in 0..MaxSmallCount}
    \cup {<<500 * k + d>> : k \in 1996..2000, d \in {0 - 1, 0, 1}}
    \cup {<<50000 * k + d>> : k \in 19..MaxHalfTenths, d \in {0 - 1, 0, 1}}

InitFormat ==
    /\ Playing(Loaded(PayloadA), PayloadA)
    /\ noteClock = 0
    /\ \/ \E s \in SecondsInputs : lastOp = [op |-> "input", arg |-> [seconds |-> s]]
       \/ \E c \in CountInputs : lastOp = [op |-> "input", arg |-> [count |-> c]]

FrameFormat ==
    /\ ScrollUnchanged
    /\ DomUnchanged
    /\ PanelUnchanged
    /\ UNCHANGED <<state, ytPlayer, inflight, noteClock>>

ApplyFormatTimestamp ==
    /\ lastOp.op = "input"
    /\ "seconds" \in DOMAIN lastOp.arg
    /\ lastOp' = [op |-> "formatTimestamp",
                  arg |-> [seconds |-> lastOp.arg.seconds,
                           text |-> formatTimestamp(lastOp.arg.seconds * Frac)]]
    /\ FrameFormat

ApplyFormatDuration ==
    /\ lastOp.op = "input"
    /\ "seconds" \in DOMAIN lastOp.arg
    /\ lastOp' = [op |-> "formatDuration",
                  arg |-> [seconds |-> lastOp.arg.seconds,
                           text |-> formatDuration(<<lastOp.arg.seconds>>)]]
    /\ FrameFormat

ApplyFormatCount ==
    /\ lastOp.op = "input"
    /\ "count" \in DOMAIN lastOp.arg
    /\ lastOp' = [op |-> "formatCount",
                  arg |-> [count |-> lastOp.arg.count,
                           text |-> formatCount(lastOp.arg.count)]]
    /\ FrameFormat

NextFormat ==
    \/ ApplyFormatTimestamp
    \/ ApplyFormatDuration
    \/ ApplyFormatCount

SpecFormat == InitFormat /\ [][NextFormat]_vars

----------------------------------------------------------------------------
(* Properties *)

SessionContent == <<state.transcript, state.chapters, state.metadata, state.videoTitle>>

(* C1: the response to the request of a video that is no longer the         *)
(* session's video, successful or failed, leaves the session's transcript,   *)
(* chapters, metadata and title as they are.                                 *)
C1_StaleResponseDiscarded ==
    [][(lastOp'.op = "response" /\ lastOp'.arg.videoId # state.videoId)
         => SessionContent' = SessionContent]_vars

(* Video B is the session's video and the answer for video A was rendered. *)
C1_StaleRendered ==
    /\ lastOp = [op |-> "response", arg |-> [videoId |-> VidA, ok |-> TRUE]]
    /\ state.videoId = VidB
    /\ state.videoTitle = PayloadA.title
    /\ state.chapters = PayloadA.chapters
    /\ inflight[VidB] > 0

InactivityTimers == {x \in timeouts : x.kind = "inactivity"}

(* C2: while the user pause lasts, the one pending inactivity timeout is due *)
(* InactivityDelay ms after the last handled scroll event, so each event     *)
(* restarts it; the pause ends only when that much time has passed since the *)
(* last event, and it ends in the idle state.                                *)
C2_Debounce ==
    /\ [](transcriptScrollPaused = "true" =>
            /\ elapsed.scroll <= InactivityDelay
            /\ InactivityTimers # {}
            /\ \A x \in InactivityTimers :
                  x.id = transcriptScrollTimer /\ x.left = InactivityDelay - elapsed.scroll)
    /\ [][(transcriptScrollPaused = "true" /\ transcriptScrollPaused' # "true")
            => /\ transcriptScrollPaused' = "false"
               /\ lastOp'.op = "inactivityTimeout"
               /\ elapsed.scroll = InactivityDelay]_vars

(* Scroll events 0 and 2000 ms into a pause: it ended 5000 ms after it began. *)
C2_Witness ==
    /\ lastOp.op = "inactivityTimeout"
    /\ lastOp.arg = [scroll |-> InactivityDelay, phase |-> 5000]
    /\ transcriptScrollPaused = "false"

(* C3: a scroll event handled while the arbiter is in its programmatic      *)
(* phase changes neither the arbiter's state nor any timeout.                *)
C3_ProgrammaticScrollIgnored ==
    [][(lastOp'.op = "scroll" /\ transcriptScrollPaused = "auto")
         => UNCHANGED <<transcriptScrollPaused, transcriptScrollTimer, timeouts>>]_vars

C3_Witness ==
    /\ lastOp.op = "scroll"
    /\ lastOp.arg = "auto"
    /\ transcriptScrollPaused = "auto"
    /\ InactivityTimers = {}

Blank(value) == \A i \in 1..Len(value) : value[i] = " "

(* text is value without its leading and trailing blanks. *)
IsTrimOf(text, value) ==
    /\ text # <<>>
    /\ text[1] # " " /\ text[Len(text)] # " "
    /\ \E i \in 1..Len(value) : \E j \in i..Len(value) :
          /\ text = SubSeq(value, i, j)
          /\ Blank(SubSeq(value, 1, i - 1))
          /\ Blank(SubSeq(value, j + 1, Len(value)))

(* The titles of the chapters whose interval [start, end) holds t. *)
TitlesAt(chapters, t) ==
    {chapters[i].title : i \in {j \in 1..Len(chapters) :
        chapters[j].start_time <= t /\ t < chapters[j].end_time}}

(* C4: addNote with a blank input leaves the log as it is; with any other   *)
(* input it appends one entry after the unchanged earlier ones, holding the  *)
(* trimmed text, the formatted current time and the title of the chapter     *)
(* that holds the current time, empty when none does.                        *)
C4_AddNote ==
    [][lastOp'.op = "addNote" =>
        LET value == lastOp'.arg
            log == state.questionLog
            after == state'.questionLog
            titles == TitlesAt(state.chapters, state.currentTime)
        IN  IF Blank(value) THEN after = log
            ELSE /\ Len(after) = Len(log) + 1
                 /\ SubSeq(after, 1, Len(log)) = log
                 /\ IsTrimOf(after[Len(after)].text, value)
                 /\ after[Len(after)].timestamp = formatTimestamp(state.currentTime)
                 /\ after[Len(after)].chapter \in (IF titles = {} THEN {""} ELSE titles)
                 /\ UNCHANGED <<state.currentTime, state.chapters>>]_vars

(* A padded note appended after an earlier one, while a chapter plays. *)
C4_Witness ==
    /\ lastOp.op = "addNote"
    /\ lastOp.arg = <<" ", "n", " ">>
    /\ Len(state.questionLog) = 2
    /\ state.questionLog[2].text = <<"n">>
    /\ state.questionLog[2].chapter = "Main"
    /\ state.questionLog[2].timestamp = "0:01"
    /\ state.questionLog[1].chapter = ""

(* C5: an entry that stays in the log keeps its timestamp and its chapter   *)
(* in every step.                                                            *)
C5_StampsFrozen ==
    [][\A i \in 1..Len(state.questionLog) : \A j \in 1..Len(state'.questionLog) :
          state.questionLog[i].askedAt = state'.questionLog[j].askedAt =>
             /\ state'.questionLog[j].timestamp = state.questionLog[i].timestamp
             /\ state'.questionLog[j].chapter = state.questionLog[i].chapter]_vars

(* Chapters arrived after a note was taken at 0:00 with none; Intro now     *)
(* spans the whole of 0:00 and later ticks and notes have passed.            *)
C5_Witness ==
    /\ Len(state.questionLog) = 2
    /\ state.questionLog[1].timestamp = "0:00"
    /\ state.questionLog[1].chapter = ""
    /\ state.questionLog[2].chapter = "Intro"
    /\ state.chapters = PayloadA.chapters
    /\ lastOp.op = "tick"

(* C6: deleteLogEntry with an index at or past the length of the log, or    *)
(* below zero, leaves the log as it is.                                      *)
C6_OutOfRangeIgnored ==
    [][(lastOp'.op = "deleteLogEntry"
        /\ (lastOp'.arg >= Len(state.questionLog) \/ lastOp'.arg < 0))
         => state'.questionLog = state.questionLog]_vars

(* Of four notes the last is gone after the one call deleteLogEntry(-1). *)
C6_NegativeIndexDeleted ==
    /\ lastOp = [op |-> "deleteLogEntry", arg |-> 0 - 1]
    /\ noteClock = 4
    /\ Len(state.questionLog) = 3
    /\ \A i \in 1..3 : state.questionLog[i].askedAt = i

(* C7: deleteLogEntry with an index inside the log removes that entry: the  *)
(* entries before it stay in place, those after it move up by one.           *)
C7_DeleteInRange ==
    [][(lastOp'.op = "deleteLogEntry"
        /\ lastOp'.arg >= 0 /\ lastOp'.arg < Len(state.questionLog))
         => LET log == state.questionLog
                after == state'.questionLog
            IN  /\ Len(after) = Len(log) - 1
                /\ \A j \in 1..Len(after) :
                      after[j] = IF j <= lastOp'.arg THEN log[j] ELSE log[j + 1]]_vars

(* The second of four notes was deleted. *)
C7_Witness ==
    /\ lastOp = [op |-> "deleteLogEntry", arg |-> 1]
    /\ Len(state.questionLog) = 3
    /\ state.questionLog[1].askedAt = 1
    /\ state.questionLog[2].askedAt = 3
    /\ state.questionLog[3].askedAt = 4

(* C8: the exported document is its header followed, per entry of the log   *)
(* and in the order the entries were taken, by a block of the entry's own    *)
(* timestamp, its own chapter unless empty, and its text.                    *)
C8_Export ==
    /\ \A i \in 1..Len(state.questionLog) : \A j \in 1..Len(state.questionLog) :
          i < j => state.questionLog[i].askedAt < state.questionLog[j].askedAt
    /\ (lastOp.op = "exportLog" /\ Len(state.questionLog) > 0) =>
          LET doc == lastOp.arg
              log == state.questionLog
          IN  /\ Len(doc) = 8 + 3 * Len(log)
              /\ \A i \in 1..Len(log) :
                    /\ doc[8 + 3 * (i - 1) + 1] =
                          (IF log[i].chapter = ""
                           THEN "**[" \o log[i].timestamp \o "]**"
                           ELSE "**[" \o log[i].timestamp \o " | " \o log[i].chapter \o "]**")
                    /\ doc[8 + 3 * (i - 1) + 2] = Str(log[i].text)
                    /\ doc[8 + 3 * (i - 1) + 3] = ""

(* Two notes exported: one taken before the chapters arrived, one in a      *)
(* chapter that is not the one playing now.                                  *)
C8_Witness ==
    /\ lastOp.op = "exportLog"
    /\ Len(state.questionLog) = 2
    /\ state.questionLog[1].chapter = ""
    /\ state.questionLog[2].chapter = "Intro"
    /\ getCurrentChapterName(state.chapters, state.currentTime) = "Main"
    /\ lastOp.arg[9] = "**[0:00]**"
    /\ lastOp.arg[12] = "**[0:00 | Intro]**"

Marked(els) == {i \in 1..Len(els) : els[i].active}

Ascending(els) == \A i \in 1..Len(els) : \A j \in 1..Len(els) : i < j => els[i].time <= els[j].time

(* C9: after a tick over entries in ascending order of time, at most one    *)
(* entry is marked; none is when the time is before the first entry;         *)
(* otherwise the marked entry has the greatest time not after the time.      *)
C9_ActiveEntry ==
    (lastOp.op = "tick" /\ Ascending(transcriptEntries)) =>
        LET els == transcriptEntries
            t == state.currentTime
            started == {i \in 1..Len(els) : els[i].time <= t}
        IN  /\ Cardinality(Marked(els)) <= 1
            /\ started = {} <=> Marked(els) = {}
            /\ \A i \in Marked(els) :
                  i \in started /\ \A j \in started : els[j].time <= els[i].time

(* Three entries at distinct times, the time between the second and third. *)
C9_Witness ==
    /\ lastOp.op = "tick"
    /\ Len(transcriptEntries) = 3
    /\ transcriptEntries[1].time < transcriptEntries[2].time
    /\ transcriptEntries[2].time < state.currentTime
    /\ state.currentTime < transcriptEntries[3].time
    /\ Marked(transcriptEntries) = {2}

Holding(chapters, t) ==
    {i \in 1..Len(chapters) : chapters[i].start_time <= t /\ t < chapters[i].end_time}

LinksHolding(links, t) == {i \in 1..Len(links) : links[i].start <= t /\ t < links[i].end}

(* C10: at most one chapter holds the current time in its interval          *)
(* [start, end); getCurrentChapterName names that chapter and is empty when  *)
(* there is none; after a tick the links marked active are exactly those     *)
(* that hold the time and the chapter shown is that link's, or empty.        *)
C10_ActiveChapter ==
    LET t == state.currentTime
        holding == Holding(state.chapters, t)
        name == getCurrentChapterName(state.chapters, t)
    IN  /\ Cardinality(holding) <= 1
        /\ holding = {} => name = ""
        /\ \A i \in holding : name = state.chapters[i].title
        /\ lastOp.op = "tick" =>
              /\ Marked(chapterLinks) = LinksHolding(chapterLinks, t)
              /\ Cardinality(Marked(chapterLinks)) <= 1
              /\ Marked(chapterLinks) = {} => currentChapter = ""
              /\ \A i \in Marked(chapterLinks) : currentChapter = chapterLinks[i].title

(* Two adjacent chapters, the time at the end of the first, which is the    *)
(* start of the second: the second is the active one.                        *)
C10_Witness ==
    /\ lastOp.op = "tick"
    /\ Len(state.chapters) = 2
    /\ state.chapters[1].end_time = state.currentTime
    /\ state.chapters[2].start_time = state.currentTime
    /\ getCurrentChapterName(state.chapters, state.currentTime) = "c2"
    /\ currentChapter = "c2"
    /\ Marked(chapterLinks) = {2}

(* Two decimal digits. *)
Digits2(x) == ToString(x \div 10) \o ToString(x % 10)

(* A count of tenths as text, a zero tenth left out. *)
TenthsText(tenths) ==
    IF tenths % 10 = 0 THEN ToString(tenths \div 10)
    ELSE ToString(tenths \div 10) \o "." \o ToString(tenths % 10)

(* C18: formatCount renders a zero or missing count as "unknown", a count   *)
(* below 1000 as the integer, a count below a million as the nearest whole   *)
(* number of thousands with "K", any larger count as the nearest tenth of a  *)
(* million, a zero tenth left out, with "M".                                 *)
C18_FormatCount ==
    lastOp.op = "formatCount" =>
        LET c == lastOp.arg.count
            text == lastOp.arg.text
        IN  /\ (c = <<>> \/ c = <<0>>) => text = "unknown"
            /\ (c # <<>> /\ c # <<0>>) =>
                  LET n == c[1]
                  IN  /\ n < 1000 => text = ToString(n)
                      /\ (n >= 1000 /\ n < 1000000) =>
                            \E k \in (n \div 1000)..(n \div 1000 + 1) :
                               /\ 2 * (1000 * k - n) \in (0 - 1000)..1000
                               /\ text = ToString(k) \o "K"
                      /\ n >= 1000000 =>
                            \E tenths \in (n \div 100000)..(n \div 100000 + 1) :
                               /\ 2 * (100000 * tenths - n) \in (0 - 100000)..100000
                               /\ text = TenthsText(tenths) \o "M"
                      /\ n = 999 => text = "999"
                      /\ n = 1500 => text = "2K"
                      /\ n = 2500000 => text = "2.5M"

C18_Witness ==
    lastOp = [op |-> "formatCount", arg |-> [count |-> <<2500000>>, text |-> "2.5M"]]

(* C19: formatTimestamp over whole seconds s is h:mm:ss from an hour on and *)
(* m:ss below it, with h = s div 3600, m = (s mod 3600) div 60 and           *)
(* ss = s mod 60, minutes after hours and seconds in two digits; a duration  *)
(* other than zero renders the same.                                         *)
C19_FormatTimestamp ==
    lastOp.op \in {"formatTimestamp", "formatDuration"} =>
        LET s == lastOp.arg.seconds
            text == lastOp.arg.text
            expected ==
                IF s >= 3600
                THEN ToString(s \div 3600) \o ":" \o Digits2((s % 3600) \div 60)
                                           \o ":" \o Digits2(s % 60)
                ELSE ToString(s \div 60) \o ":" \o Digits2(s % 60)
        IN  /\ (lastOp.op = "formatTimestamp" \/ s > 0) => text = expected
            /\ (lastOp.op = "formatTimestamp" /\ s = 75) => text = "1:15"

C19_Witness ==
    lastOp = [op |-> "formatTimestamp", arg |-> [seconds |-> 3661, text |-> "1:01:01"]]

SettleTimers == {x \in timeouts : x.kind = "settle"}

(* C20: a tick that finds the arbiter paused by the user or in its          *)
(* programmatic phase leaves the arbiter and the timeouts as they are; a     *)
(* tick that arms a settle timeout found the arbiter idle and puts it in     *)
(* the programmatic phase.                                                   *)
C20_AutoScrollOnlyWhenIdle ==
    [][lastOp'.op = "tick" =>
          /\ transcriptScrollPaused # "false" =>
                UNCHANGED <<transcriptScrollPaused, transcriptScrollTimer, timeouts>>
          /\ (timeouts' # timeouts \/ transcriptScrollPaused' # transcriptScrollPaused) =>
                /\ transcriptScrollPaused = "false"
                /\ transcriptScrollPaused' = "auto"]_vars

(* A tick with the active entry out of view during a user pause. *)
C20_Witness ==
    /\ lastOp = [op |-> "tick", arg |-> TRUE]
    /\ transcriptScrollPaused = "true"
    /\ Marked(transcriptEntries) # {}
    /\ SettleTimers = {}
    /\ InactivityTimers # {}

(* C11: a loadVideo that issues a transcript request leaves the session     *)
(* with the new video id and every other field as at start: no title, no     *)
(* transcript, no chapters, no metadata, time 0, the default scope, the      *)
(* message not sent, an empty log.                                           *)
C11_FullReset ==
    [][(lastOp'.op = "loadVideo" /\ inflight' # inflight) =>
          /\ state'.videoId \in VideoIds
          /\ inflight'[state'.videoId] = inflight[state'.videoId] + 1
          /\ state'.videoTitle = InitialState.videoTitle
          /\ state'.transcript = InitialState.transcript
          /\ state'.chapters = InitialState.chapters
          /\ state'.metadata = InitialState.metadata
          /\ state'.currentTime = InitialState.currentTime
          /\ state'.initScope = InitialState.initScope
          /\ state'.initSent = InitialState.initSent
          /\ state'.questionLog = InitialState.questionLog]_vars

(* A video was loaded after the user had switched the timestamps option     *)
(* off: the new session starts with the plain scope.                         *)
C11_ScopeSurvivesLoad ==
    /\ lastOp.op = "loadVideo"
    /\ state.videoId = VidB
    /\ inflight[VidB] = 1
    /\ state.initScope = "plain"
    /\ state.initScope # InitialState.initScope
    /\ state.questionLog = <<>> /\ state.transcript = Null /\ ~state.initSent

(* The session holds a transcript made from pasted text. *)
ManualEntry(st) ==
    /\ st.transcript # Null
    /\ st.transcript.entries = <<>>
    /\ st.transcript.plain_text # ""

(* C12: with a transcript made from pasted text, the transcript body is the *)
(* same for the plain scope and for the timestamped scope.                   *)
C12_ManualScopesAgree ==
    ManualEntry(state) =>
        getTranscriptForScope(state, "plain") = getTranscriptForScope(state, "timestamps")

(* The line of a message that holds the transcript body. *)
TranscriptBody(msg) ==
    msg[CHOOSE i \in 4..Len(msg) : msg[i - 3] = "## Transcript"]

(* The message copied in manual-entry mode with the plain scope has an      *)
(* empty transcript body although text was pasted.                           *)
C12_PlainBodyEmpty ==
    /\ lastOp.op = "copyInitMessage"
    /\ lastOp.arg # <<>>
    /\ ManualEntry(state)
    /\ state.transcript.plain_text = "p"
    /\ state.initScope = "plain"
    /\ TranscriptBody(lastOp.arg) = ""

(* C17: copyToClipboard resolves to a boolean, true exactly when the text   *)
(* was copied: the clipboard write succeeded or, after its failure, the      *)
(* fallback copy succeeded.                                                  *)
C17_ClipboardResult ==
    lastOp.op = "clipboard" =>
        /\ lastOp.arg.ok \in BOOLEAN
        /\ lastOp.arg.ok = (lastOp.arg.outcome.write = "resolves"
                            \/ lastOp.arg.outcome.exec = "true")

(* The write was rejected and execCommand returned false: nothing was       *)
(* copied, the caller was told true and marked the init message as sent.     *)
C17_FailedFallbackReportedTrue ==
    /\ lastOp = [op |-> "clipboard",
                 arg |-> [caller |-> "init",
                          outcome |-> [write |-> "rejects", exec |-> "false"],
                          ok |-> TRUE]]
    /\ state.initSent

(* m occurs in the text s. *)
Contains(s, m) ==
    \E i \in 1..(Len(s) - Len(m) + 1) : SubSeq(s, i, i + Len(m) - 1) = m

(* The texts of the first n entries, one space between neighbours. *)
RECURSIVE SpacedTexts(_, _)
SpacedTexts(entries, n) ==
    IF n = 0 THEN ""
    ELSE IF n = 1 THEN entries[1].text
    ELSE SpacedTexts(entries, n - 1) \o " " \o entries[n].text

(* C13: with a transcript loaded, getTranscriptForScope gives the           *)
(* transcript's precomputed text for the timestamped scope and for every     *)
(* unrecognized scope, and for the plain scope the entry texts with single   *)
(* spaces between them, holding none of the entries' timestamps; without a   *)
(* transcript every scope gives the same placeholder.                        *)
C13_TranscriptForScope ==
    lastOp.op = "getTranscriptForScope" =>
        LET scope == lastOp.arg.scope
            text == lastOp.arg.text
        IN  IF state.transcript = Null THEN text = "[No transcript loaded]"
            ELSE LET entries == state.transcript.entries
                 IN  /\ scope # "plain" => text = state.transcript.plain_text
                     /\ scope = "plain" =>
                           /\ text = SpacedTexts(entries, Len(entries))
                           /\ \A i \in 1..Len(entries) :
                                 ~Contains(text, entries[i].timestamp)

(* The plain scope over two entries whose timestamps the precomputed text   *)
(* holds.                                                                    *)
C13_Witness ==
    /\ lastOp = [op |-> "getTranscriptForScope",
                 arg |-> [scope |-> "plain", text |-> "one two"]]
    /\ Len(state.transcript.entries) = 2
    /\ \A i \in 1..2 :
          Contains(state.transcript.plain_text, state.transcript.entries[i].timestamp)

SectionHeadings ==
    {"## Video Information", "## Series Context", "## Video Chapters",
     "## Video Description", "## My Related Conversations", "## Transcript",
     "## How I'd Like to Work Together"}

IsSectionHeading(line) == line \in SectionHeadings

(* The section headings of a message, in the order they occur. *)
HeadingsOf(msg) == SelectSeq(msg, IsSectionHeading)

(* Some thread input holds more than blanks. *)
HasRelatedThread(inputs) ==
    \E i \in 1..Len(inputs) : \E k \in 1..Len(inputs[i]) : inputs[i][k] # " "

HasText(meta, name) == name \in DOMAIN meta /\ meta[name] # ""

(* C14: the headings of a built init message are, in this order: Video      *)
(* Information; Series Context iff there is a playlist title; Video Chapters *)
(* iff there are chapters, followed by one line per chapter in chapter       *)
(* order; Video Description iff the option is on and there is a description; *)
(* Related Conversations iff some thread input is not blank; Transcript; the *)
(* instruction block.                                                        *)
C14_SectionOrder ==
    (lastOp.op = "toggleInitPreview" /\ lastOp.arg # <<>>) =>
        LET msg == lastOp.arg
            at == CHOOSE i \in 1..Len(msg) : msg[i] = "## Video Chapters"
        IN  /\ HeadingsOf(msg) =
                   <<"## Video Information">>
                   \o (IF HasText(state.metadata, "playlist_title")
                       THEN <<"## Series Context">> ELSE <<>>)
                   \o (IF state.chapters # <<>> THEN <<"## Video Chapters">> ELSE <<>>)
                   \o (IF opts.description /\ HasText(state.metadata, "description")
                       THEN <<"## Video Description">> ELSE <<>>)
                   \o (IF HasRelatedThread(threads)
                       THEN <<"## My Related Conversations">> ELSE <<>>)
                   \o <<"## Transcript", "## How I'd Like to Work Together">>
            /\ state.chapters # <<>> =>
                  \A k \in 1..Len(state.chapters) :
                     msg[at + k] = "- [" \o state.chapters[k].timestamp \o "] "
                                        \o state.chapters[k].title

(* A message with all seven sections. *)
C14_Witness ==
    /\ lastOp.op = "toggleInitPreview"
    /\ lastOp.arg # <<>>
    /\ Len(HeadingsOf(lastOp.arg)) = 7
    /\ Len(state.chapters) = 2

BuilderOps ==
    {"toggleInitPreview", "getTranscriptForScope", "exportLog", "copyContext",
     "copyInitMessage"}

(* C15: a step that builds the init message, a transcript body, the export *)
(* document or the context snippet leaves every field of the session state  *)
(* as it is.                                                                 *)
C15_BuildersReadOnly ==
    [][lastOp'.op \in BuilderOps => state' = state]_vars

(* The init message was built for a session with a transcript, a note and   *)
(* the message already sent.                                                 *)
C15_Witness ==
    /\ lastOp.op = "toggleInitPreview"
    /\ lastOp.arg # <<>>
    /\ state.transcript # Null
    /\ state.initSent
    /\ Len(state.questionLog) = 1
    /\ state.currentTime = MaxTime

(* C16: every call of the player's seekTo is made by the click on a         *)
(* transcript entry or on a chapter link, with that entry's time or that     *)
(* chapter's start as its target; no other step calls it.                    *)
C16_SeekOnlyOnSelection ==
    [][ytSeek' # ytSeek =>
          /\ ytSeek'.calls = ytSeek.calls + 1
          /\ \/ /\ lastOp'.op = "selectEntry"
                /\ ytSeek'.target = transcriptEntries[lastOp'.arg].time
             \/ /\ lastOp'.op = "selectChapter"
                /\ ytSeek'.target = chapterLinks[lastOp'.arg].start]_vars

(* The second entry was clicked; the tick after it did not seek. *)
C16_Witness ==
    /\ lastOp.op = "tick"
    /\ ytSeek = [calls |-> 1, target |-> PayloadA.entries[2].time]
    /\ Len(state.questionLog) = 1

(* C21: the arbiter starts Idle; a programmatic phase always has its settle *)
(* timeout pending, due within SettleDelay < InactivityDelay, and leads to   *)
(* Idle; and unless scroll events keep coming for ever, the arbiter is Idle  *)
(* again and again.                                                          *)
C21_ArbiterReturnsToIdle ==
    /\ transcriptScrollPaused = "false"
    /\ SettleDelay < InactivityDelay
    /\ [](transcriptScrollPaused = "auto" =>
            \E x \in timeouts : x.kind = "settle" /\ x.left <= SettleDelay)
    /\ (transcriptScrollPaused = "auto") ~> (transcriptScrollPaused = "false")
    /\ \/ []<>(transcriptScrollPaused = "false")
       \/ []<><<Scroll>>_vars

(* The inactivity timeout ended a pause that scroll events had prolonged. *)
C21_Witness ==
    /\ lastOp.op = "inactivityTimeout"
    /\ lastOp.arg.phase > InactivityDelay
    /\ transcriptScrollPaused = "false"
    /\ timeouts = {}

(* C28: an inactivity timeout is pending exactly while the user pause       *)
(* lasts, and it is the one transcriptScrollTimer names; a settle timeout is *)
(* pending exactly during the programmatic phase; there is never more than   *)
(* one of either kind; a settle timeout is armed only by the step that       *)
(* enters the programmatic phase, so the one that fires belongs to the       *)
(* phase it ends, and its callback never ends a user pause.                  *)
C28_TimerConsistency ==
    /\ []((InactivityTimers # {}) <=> (transcriptScrollPaused = "true"))
    /\ []((SettleTimers # {}) <=> (transcriptScrollPaused = "auto"))
    /\ [](Cardinality(InactivityTimers) <= 1 /\ Cardinality(SettleTimers) <= 1)
    /\ [](\A x \in InactivityTimers : x.id = transcriptScrollTimer)
    /\ [][({x.id : x \in SettleTimers'} \ {x.id : x \in SettleTimers} # {}) =>
             /\ transcriptScrollPaused = "false"
             /\ transcriptScrollPaused' = "auto"
             /\ SettleTimers = {}]_vars
    /\ [][lastOp'.op = "settleTimeout" =>
             /\ transcriptScrollPaused = "auto"
             /\ transcriptScrollPaused' = "false"
             /\ SettleTimers' = {}]_vars

(* A scroll event SettleDelay ms into the user pause re-armed the timeout:   *)
(* one is pending, with the full delay.                                      *)
C28_Witness ==
    /\ lastOp = [op |-> "scroll", arg |-> "true"]
    /\ transcriptScrollPaused = "true"
    /\ Cardinality(InactivityTimers) = 1
    /\ \A x \in InactivityTimers : x.left = InactivityDelay
    /\ elapsed.phase = SettleDelay
    /\ SettleTimers = {}

(* C22: a failed transcript request changes no field of the session, so a   *)
(* session without transcript, chapters and metadata stays without them, and *)
(* it displays the paste box; an input event on the box whose value has      *)
(* text makes the trimmed value the transcript, with no entries, and one     *)
(* whose value is empty or blank changes no field of the session.            *)
C22_ManualEntryOnFailure ==
    /\ [](state.transcript = Null => state.chapters = <<>> /\ state.metadata = Null)
    /\ [][(lastOp'.op = "response" /\ ~lastOp'.arg.ok) =>
             /\ state' = state
             /\ pasteShown']_vars
    /\ [][lastOp'.op = "paste" =>
             IF Blank(lastOp'.arg)
             THEN state' = state
             ELSE /\ state'.transcript.entries = <<>>
                  /\ \E text \in SeqsUpTo({" ", "p"}, Len(lastOp'.arg)) :
                        /\ IsTrimOf(text, lastOp'.arg)
                        /\ state'.transcript.plain_text = Str(text)
                  /\ [state' EXCEPT !.transcript = state.transcript] = state]_vars

(* The request failed, nothing was rendered, and the pasted " p" became the *)
(* transcript "p".                                                           *)
C22_Witness ==
    /\ lastOp = [op |-> "paste", arg |-> <<" ", "p">>]
    /\ state.transcript = [entries |-> <<>>, plain_text |-> "p"]
    /\ state.chapters = <<>>
    /\ state.metadata = Null
    /\ state.videoId = VidA
    /\ pasteShown
    /\ InflightTotal = 0

StartsWith(line, prefix) ==
    Len(line) >= Len(prefix) /\ SubSeq(line, 1, Len(prefix)) = prefix

(* The lines of msg from the Video Information heading to the URL line. *)
InfoLines(msg) ==
    LET last == CHOOSE i \in 3..Len(msg) : StartsWith(msg[i], "- **URL:**")
    IN  SubSeq(msg, 3, last)

Labelled(lines, label) == {i \in 1..Len(lines) : StartsWith(lines[i], label)}

NumberMissing(name) == Falsy(Field(state.metadata, name, <<>>))

TextMissing(name) == Field(state.metadata, name, "") = ""

ListMissing(name) == Field(state.metadata, name, <<>>) = <<>>

(* The claim as stated: whatever the options, a shown message has the       *)
(* section, with a missing channel, date, duration, view count or like count *)
(* written as Unknown / unknown and no line for missing categories or tags.  *)
C23_UnknownInEveryConfiguration ==
    initPreview # <<>> =>
        LET lines == InfoLines(initPreview)
        IN  /\ lines[1] = "## Video Information"
            /\ TextMissing("channel") =>
                  \E i \in 1..Len(lines) : StartsWith(lines[i], "- **Channel:** Unknown")
            /\ NumberMissing("upload_date") =>
                  \E i \in 1..Len(lines) : lines[i] = "- **Published:** Unknown"
            /\ NumberMissing("duration") =>
                  \E i \in 1..Len(lines) : lines[i] = "- **Duration:** unknown"
            /\ NumberMissing("view_count") =>
                  \E i \in 1..Len(lines) : lines[i] = "- **Views:** unknown"
            /\ NumberMissing("like_count") =>
                  \E i \in 1..Len(lines) : lines[i] = "- **Likes:** unknown"
            /\ ListMissing("categories") => Labelled(lines, "- **Category:**") = {}
            /\ ListMissing("tags") => Labelled(lines, "- **Tags:**") = {}

(* C23: every message has the section, from its heading and title line to   *)
(* its URL line. With the metadata option on, the channel, published,        *)
(* duration, views and likes lines follow the title in this order, each      *)
(* reading Unknown / unknown exactly when its field is missing or zero, and  *)
(* the category and tags lines come after them exactly when their lists      *)
(* have elements. With the option off the section has none of these lines.   *)
C23_InfoSection ==
    initPreview # <<>> =>
        LET lines == InfoLines(initPreview)
            n == Len(lines)
            cat == IF ListMissing("categories") THEN 0 ELSE 1
            tag == IF ListMissing("tags") THEN 0 ELSE 1
        IN  /\ initPreview[3] = "## Video Information"
            /\ StartsWith(lines[2], "- **Title:** ")
            /\ StartsWith(lines[n], "- **URL:** ")
            /\ IF opts.metadata
               THEN /\ n = 8 + cat + tag
                    /\ StartsWith(lines[3], "- **Channel:** ")
                    /\ StartsWith(lines[3], "- **Channel:** Unknown") <=> TextMissing("channel")
                    /\ StartsWith(lines[4], "- **Published:** ")
                    /\ lines[4] = "- **Published:** Unknown" <=> NumberMissing("upload_date")
                    /\ StartsWith(lines[5], "- **Duration:** ")
                    /\ lines[5] = "- **Duration:** unknown" <=> NumberMissing("duration")
                    /\ StartsWith(lines[6], "- **Views:** ")
                    /\ lines[6] = "- **Views:** unknown" <=> NumberMissing("view_count")
                    /\ StartsWith(lines[7], "- **Likes:** ")
                    /\ lines[7] = "- **Likes:** unknown" <=> NumberMissing("like_count")
                    /\ Labelled(lines, "- **Category:**") = IF cat = 1 THEN {8} ELSE {}
                    /\ Labelled(lines, "- **Tags:**") = IF tag = 1 THEN {8 + cat} ELSE {}
               ELSE n = 3

(* A message built with the option on for a video whose metadata has a      *)
(* channel and tags and lacks the date, the counts and the categories.       *)
C23_Witness ==
    /\ initPreview # <<>>
    /\ opts.metadata
    /\ state.metadata # Null
    /\ ~TextMissing("channel") /\ ~ListMissing("tags")
    /\ NumberMissing("upload_date") /\ NumberMissing("view_count")
    /\ state.metadata.duration = <<0>>
    /\ ListMissing("categories")
    /\ InfoLines(initPreview)[6] = "- **Views:** unknown"
    /\ Len(InfoLines(initPreview)) = 9

(* C24: the context snippet is one line in square brackets: the formatted   *)
(* current time, the video title or Untitled, and the Chapter segment        *)
(* exactly when a chapter's interval holds the current time, with that       *)
(* chapter's title.                                                          *)
C24_ContextSnippet ==
    lastOp.op = "copyContext" =>
        LET msg == lastOp.arg
            active == Holding(state.chapters, state.currentTime)
            title == IF state.videoTitle = "" THEN "Untitled" ELSE state.videoTitle
            head == "[Timestamp: " \o formatTimestamp(state.currentTime)
                       \o ". Video title: \"" \o title \o "\""
        IN  /\ SubSeq(msg, 1, 1) = "[" /\ SubSeq(msg, Len(msg), Len(msg)) = "]"
            /\ ~Contains(msg, "\n")
            /\ Cardinality(active) <= 1
            /\ Contains(msg, ". Chapter: ") <=> active # {}
            /\ active = {} => msg = head \o ".]"
            /\ \A i \in active :
                  msg = head \o ". Chapter: \"" \o state.chapters[i].title \o "\".]"

(* The snippet taken in the second chapter of video A. *)
C24_Witness ==
    /\ lastOp = [op |-> "copyContext",
                 arg |-> "[Timestamp: 0:01. Video title: \"Alpha\". Chapter: \"Main\".]"]
    /\ state.currentTime = 3

(* A stored blob that is not the JSON of an object with all the flags. *)
Malformed(saved) ==
    saved.kind # "object" \/ DOMAIN saved.flags # FlagNames

(* C25: restoring the preferences never throws, and a malformed blob leaves *)
(* the checkboxes and state.initScope as they were: at their defaults.       *)
C25_MalformedIgnored ==
    [][/\ lastOp'.op = "restoreCollapseStates" => ~lastOp'.arg.threw
       /\ (lastOp'.op = "loadInitOptions" /\ Malformed(lastOp'.arg)) =>
             /\ opts' = opts
             /\ state'.initScope = state.initScope]_vars

(* The store held {}: every checkbox is at its default, the timestamps one  *)
(* checked, and state.initScope is "plain".                                   *)
C25_ScopeLeavesDefault ==
    /\ lastOp = [op |-> "loadInitOptions",
                 arg |-> [kind |-> "object", flags |-> <<>>]]
    /\ opts = DefaultOpts
    /\ state.initScope = "plain"

(* The text reached the clipboard. *)
Written(outcome) == outcome.write = "resolves" \/ outcome.exec = "true"

(* C26: initSent becomes true only in the step in which a clipboard write   *)
(* of an init message built for the current video succeeds, and a load that  *)
(* issues a request leaves it false.                                         *)
C26_InitSentForCurrentVideo ==
    /\ [][(state'.initSent /\ ~state.initSent) =>
             /\ lastOp'.op = "clipboard"
             /\ Written(lastOp'.arg.outcome)
             /\ \E job \in clipboardJobs \ clipboardJobs' :
                   job.caller = "init" /\ job.video = state.videoId]_vars
    /\ [][(lastOp'.op = "loadVideo" /\ state' # state) => ~state'.initSent]_vars

(* The message for video A was copied, video B was loaded, then the write   *)
(* succeeded: the session of video B, still waiting for its transcript, has  *)
(* the init message marked as sent.                                          *)
C26_SentInNewSession ==
    /\ lastOp.op = "clipboard"
    /\ lastOp.arg.caller = "init"
    /\ lastOp.arg.outcome.write = "resolves"
    /\ state.videoId = VidB
    /\ state.transcript = Null
    /\ inflight[VidB] = 1
    /\ state.initSent

(* C27: after a tick the chapter shown is the one getCurrentChapterName     *)
(* returns for the session's chapters, the links marked active are those of  *)
(* the session's chapters that hold the time, and a session without          *)
(* chapters shows none.                                                      *)
C27_ShownChapterAgrees ==
    lastOp.op = "tick" =>
        /\ currentChapter = getCurrentChapterName(state.chapters, state.currentTime)
        /\ {chapterLinks[i].title : i \in Marked(chapterLinks)}
              = TitlesAt(state.chapters, state.currentTime)

(* Video A was played, then the video without chapters was loaded and its   *)
(* transcript rendered: the tick shows the first chapter of video A.         *)
C27_StaleChapterShown ==
    /\ lastOp.op = "tick"
    /\ state.videoId = VidB
    /\ state.transcript # Null
    /\ state.chapters = <<>>
    /\ getCurrentChapterName(state.chapters, state.currentTime) = ""
    /\ currentChapter = PayloadA.chapters[1].title
    /\ Marked(chapterLinks) = {1}

(* C29: a loadVideo whose input yields no video id leaves every field of    *)
(* the session state, the requests in flight, the player and the page as     *)
(* they were.                                                                *)
C29_InvalidLoadChangesNothing ==
    [][(lastOp'.op = "loadVideo" /\ extractVideoId(Trim(lastOp'.arg)) = NullId) =>
          /\ state' = state
          /\ inflight' = inflight
          /\ UNCHANGED <<ytPlayer, chapterLinks, transcriptEntries, currentChapter,
                         pasteShown, initPreview, copyInitEnabled, clipboardJobs>>]_vars

(* "v=a" was submitted in a session with a transcript, a note and the init  *)
(* message sent: all of it is still there and no request is in flight.       *)
C29_Witness ==
    /\ lastOp = [op |-> "loadVideo", arg |-> <<"v", "=", "a">>]
    /\ state.videoId = VidA
    /\ state.transcript # Null
    /\ state.chapters # <<>>
    /\ Len(state.questionLog) = 1
    /\ state.initSent
    /\ InflightTotal = 0

====
